---- MODULE Spec2Model ----
(***************************************************************************)
(* Verification model of skill-compose: the per-run Event Stream           *)
(* (app/agent/event_stream.py), the filesystem steering queue              *)
(* (app/agent/steering.py), the channel adapter registry                   *)
(* (app/services/channel_manager.py, app/api/v1/channels.py) and the task  *)
(* scheduler (app/services/scheduler.py, app/api/v1/scheduler.py).         *)
(*                                                                         *)
(* Each component has its own specification (SpecStream, SpecSteer,        *)
(* SpecChannel, SpecSched, SpecInbound); the variables of the other        *)
(* components keep their initial value in it.                              *)
(***************************************************************************)
EXTENDS Integers, Sequences, FiniteSets, TLC

(***************************************************************************)
(* Bounds                                                                  *)
(***************************************************************************)
MaxPush == 3
MaxClose == 2
MaxInject == 2
MaxHeartbeat == 2

(***************************************************************************)
(* Generic helpers                                                         *)
(***************************************************************************)
Range(f) == {f[i] : i \in DOMAIN f}

IsPrefix(a, b) == Len(a) <= Len(b) /\ \A i \in 1..Len(a) : a[i] = b[i]

Max(a, b) == IF a >= b THEN a ELSE b

(***************************************************************************)
(* Event Stream  (app/agent/event_stream.py)                               *)
(***************************************************************************)
StreamIds == {"s1", "s2"}

\* event_type of the events an agent run pushes
EventTypes == {"turn_start", "complete"}

\* StreamEvent(event_type="heartbeat", turn=0, data={})
HeartbeatEvent == "heartbeat"

\* the sentinel close() enqueues
NoneEvent == "None"

VARIABLES
    queue,            \* EventStream._queue, per stream
    injection_queue,  \* EventStream._injection_queue, per stream
    closed,           \* EventStream._closed, per stream
    yielded,          \* events the consumer's "async for" has received
    iter_done,        \* the consumer's iteration has ended (break)
    push_log,         \* history: every push() call, and whether close() had been called
    close_calls,      \* history: number of close() calls
    inject_log,       \* history: every text handed to inject()
    taken_log,        \* history: every text get_injection_nowait() returned
    empty_take        \* history: get_injection_nowait() has returned None

streamVars == <<queue, injection_queue, closed, yielded, iter_done,
                push_log, close_calls, inject_log, taken_log, empty_take>>

StreamInit ==
    /\ queue = [s \in StreamIds |-> <<>>]
    /\ injection_queue = [s \in StreamIds |-> <<>>]
    /\ closed = [s \in StreamIds |-> FALSE]
    /\ yielded = [s \in StreamIds |-> <<>>]
    /\ iter_done = [s \in StreamIds |-> FALSE]
    /\ push_log = [s \in StreamIds |-> <<>>]
    /\ close_calls = [s \in StreamIds |-> 0]
    /\ inject_log = [s \in StreamIds |-> <<>>]
    /\ taken_log = [s \in StreamIds |-> <<>>]
    /\ empty_take = [s \in StreamIds |-> FALSE]

\* EventStream.push: enqueue, no-op if closed
push(s, e) ==
    /\ Len(push_log[s]) < MaxPush
    /\ push_log' = [push_log EXCEPT ![s] =
                       Append(@, [event |-> e, before_close |-> close_calls[s] = 0])]
    /\ queue' = IF ~closed[s] THEN [queue EXCEPT ![s] = Append(@, e)] ELSE queue
    /\ UNCHANGED <<injection_queue, closed, yielded, iter_done, close_calls, inject_log, taken_log, empty_take>>

\* EventStream.close without the "if not self._closed" test
close_NotIdempotent(s) ==
    /\ close_calls[s] < MaxClose
    /\ close_calls' = [close_calls EXCEPT ![s] = @ + 1]
    /\ closed' = [closed EXCEPT ![s] = TRUE]
    /\ queue' = [queue EXCEPT ![s] = Append(@, NoneEvent)]
    /\ UNCHANGED <<injection_queue, yielded, iter_done, push_log, inject_log, taken_log, empty_take>>

\* EventStream.close: first call sets _closed and enqueues the sentinel
close(s) ==
    /\ close_calls[s] < MaxClose
    /\ close_calls' = [close_calls EXCEPT ![s] = @ + 1]
    /\ IF ~closed[s]
          THEN /\ closed' = [closed EXCEPT ![s] = TRUE]
               /\ queue' = [queue EXCEPT ![s] = Append(@, NoneEvent)]
          ELSE UNCHANGED <<closed, queue>>
    /\ UNCHANGED <<injection_queue, yielded, iter_done, push_log, inject_log, taken_log, empty_take>>

\* the effect of EventStream.inject on the injection queue and its history
InjectEffect(s, message) ==
    /\ injection_queue' = [injection_queue EXCEPT ![s] = Append(@, message)]
    /\ inject_log' = [inject_log EXCEPT ![s] = Append(@, message)]

\* EventStream.has_injection: not self._injection_queue.empty()
has_injection(s) == injection_queue[s] # <<>>

\* a take that returns the newest text
TakeNewest(s) ==
    /\ IF injection_queue[s] # <<>>
          THEN /\ taken_log' = [taken_log EXCEPT ![s] =
                                   Append(@, injection_queue[s][Len(injection_queue[s])])]
               /\ injection_queue' = [injection_queue EXCEPT ![s] = SubSeq(@, 1, Len(@) - 1)]
               /\ UNCHANGED empty_take
          ELSE /\ empty_take' = [empty_take EXCEPT ![s] = TRUE]
               /\ UNCHANGED <<injection_queue, taken_log>>
    /\ UNCHANGED <<queue, closed, yielded, iter_done, push_log, close_calls, inject_log>>

\* EventStream.get_injection_nowait: pop and return the oldest text; None
\* (asyncio.QueueEmpty) when nothing is queued
get_injection_nowait(s) ==
    /\ IF injection_queue[s] # <<>>
          THEN /\ taken_log' = [taken_log EXCEPT ![s] = Append(@, Head(injection_queue[s]))]
               /\ injection_queue' = [injection_queue EXCEPT ![s] = Tail(@)]
               /\ UNCHANGED empty_take
          ELSE /\ empty_take' = [empty_take EXCEPT ![s] = TRUE]
               /\ UNCHANGED <<injection_queue, taken_log>>
    /\ UNCHANGED <<queue, closed, yielded, iter_done, push_log, close_calls, inject_log>>

\* EventStream.__aiter__, queue.get() returned an item before the timeout
aiter_next(s) ==
    /\ ~iter_done[s]
    /\ queue[s] # <<>>
    /\ queue' = [queue EXCEPT ![s] = Tail(@)]
    /\ IF Head(queue[s]) = NoneEvent
          THEN /\ iter_done' = [iter_done EXCEPT ![s] = TRUE]
               /\ UNCHANGED yielded
          ELSE /\ yielded' = [yielded EXCEPT ![s] = Append(@, Head(queue[s]))]
               /\ UNCHANGED iter_done
    /\ UNCHANGED <<injection_queue, closed, push_log, close_calls, inject_log, taken_log, empty_take>>

HeartbeatsOf(seq) == Len(SelectSeq(seq, LAMBDA e : e = HeartbeatEvent))

\* a timeout that ends the iteration
TimeoutEndsIteration(s) ==
    /\ ~iter_done[s]
    /\ queue[s] = <<>>
    /\ iter_done' = [iter_done EXCEPT ![s] = TRUE]
    /\ UNCHANGED <<queue, injection_queue, closed, yielded, push_log, close_calls,
                   inject_log, taken_log, empty_take>>

\* EventStream.__aiter__, asyncio.TimeoutError: nothing arrived for a heartbeat interval
aiter_timeout(s) ==
    /\ ~iter_done[s]
    /\ queue[s] = <<>>
    /\ HeartbeatsOf(yielded[s]) < MaxHeartbeat
    /\ yielded' = [yielded EXCEPT ![s] = Append(@, HeartbeatEvent)]
    /\ UNCHANGED <<queue, injection_queue, closed, iter_done, push_log, close_calls, inject_log, taken_log, empty_take>>

(***************************************************************************)
(* Steering Transport  (app/agent/steering.py)                             *)
(***************************************************************************)
MaxWrites == 2
MaxCloseSteer == 1

\* trace ids whose directory STEERING_DIR / trace_id the model follows
Runs == {"r1", "r2"}

\* processes that call write_steering_message (a steer POST may land on any worker)
Writers == {"w1", "w2"}

\* os.getpid() of each writing process
Pid == [w \in Writers |-> IF w = "w1" THEN 1 ELSE 2]

\* the values of os.urandom(4).hex() the model draws from; two names of the
\* model never agree on the timestamp and the pid, so the suffix decides no order
RandomSuffixes == {0}

\* polling tasks; poller p injects into stream PollStream[p] of its own worker
Pollers == {"p1", "p2"}

PollStream == [p \in Pollers |-> IF p = "p1" THEN "s1" ELSE "s2"]

NoRun == "none"

\* message texts, as the sequence of chunks write_text hands to the file;
\* the k-th submission carries Texts[k], so that every message is distinct
Texts == <<(<<"a1", "a2">>), (<<"b1", "b2">>), (<<"c1", "c2">>), (<<"d1", "d2">>)>>

VARIABLES
    clock,        \* time.time_ns(), the wall clock shared by all processes
    dir_exists,   \* trace_dir.exists(), per run
    files,        \* the files below STEERING_DIR: [run, name, ext, content]
    w_pc,         \* position of each writer inside write_steering_message
    w_run,        \* its trace_id argument
    w_text,       \* its message argument
    w_name,       \* its local "unique"
    p_run,        \* trace_id argument of each poll_steering_messages task
    p_pc,         \* position of each poller
    p_pending,    \* rest of sorted(trace_dir.glob("*.msg")) of the current tick
    submit_log,   \* history: texts in the order write_steering_message was called, per run
    overlapped,   \* history: two write_steering_message calls for the run overlapped in time
    reads,        \* history: [run, ext, content] of every read_text of a poller
    deliveries,   \* history: [run, name, poller, k] for the k-th inject of a file
    read_failed,  \* history: [run, name] of every existing file whose read_text raised
    cleaned,      \* history: [run, name] of every .msg file a cleanup_steering_dir removed
    publish_log   \* history: [name, text] in the order the renames to .msg happened, per run

steerVars == <<clock, dir_exists, files, w_pc, w_run, w_text, w_name,
               p_run, p_pc, p_pending, submit_log, overlapped, reads, deliveries,
                   read_failed, cleaned, publish_log>>

NoName == [ts |-> 0, pid |-> 0, rnd |-> 0]

\* names that begin with the pid: f"{os.getpid()}_{time.time_ns()}_..."
NameLessPidFirst(a, b) ==
    \/ a.pid < b.pid
    \/ a.pid = b.pid /\ a.ts < b.ts
    \/ a.pid = b.pid /\ a.ts = b.ts /\ a.rnd < b.rnd

\* f"{time.time_ns()}_{os.getpid()}_{os.urandom(4).hex()}" compared as sorted() compares
NameLess(a, b) ==
    \/ a.ts < b.ts
    \/ a.ts = b.ts /\ a.pid < b.pid
    \/ a.ts = b.ts /\ a.pid = b.pid /\ a.rnd < b.rnd

RECURSIVE SortDescending(_)
\* the paths of a set in descending order of name
SortDescending(S) ==
    IF S = {} THEN <<>>
    ELSE LET m == CHOOSE x \in S : \A y \in S \ {x} : NameLess(y.name, x.name)
         IN <<m>> \o SortDescending(S \ {m})

RECURSIVE SortPaths(_)
\* sorted(...) of a set of paths of one directory: ascending order of name
SortPaths(S) ==
    IF S = {} THEN <<>>
    ELSE LET m == CHOOSE x \in S : \A y \in S \ {x} : NameLess(x.name, y.name)
         IN <<m>> \o SortPaths(S \ {m})

\* trace_dir.glob("*"): the paths of all files of the directory, temporary ones included
GlobAll(r) == {[name |-> f.name, ext |-> f.ext] : f \in {g \in files : g.run = r}}

\* trace_dir.glob("*.msg"): the paths of the published files of the directory
GlobMsg(r) == {[name |-> f.name, ext |-> f.ext] : f \in {g \in files : g.run = r /\ g.ext = "msg"}}

\* the file a path names, if it exists
FileAt(r, n, x) == {f \in files : f.run = r /\ f.name = n /\ f.ext = x}

SteerInit ==
    /\ clock = 1
    /\ dir_exists = [r \in Runs |-> FALSE]
    /\ files = {}
    /\ w_pc = [w \in Writers |-> "idle"]
    /\ w_run = [w \in Writers |-> NoRun]
    /\ w_text = [w \in Writers |-> <<>>]
    /\ w_name = [w \in Writers |-> NoName]
    /\ p_run \in [Pollers -> {"r1", NoRun}]
    /\ p_run["p1"] = "r1"
    /\ p_pc = [p \in Pollers |-> IF p_run[p] = NoRun THEN "done" ELSE "loop"]
    /\ p_pending = [p \in Pollers |-> <<>>]
    /\ submit_log = [r \in Runs |-> <<>>]
    /\ overlapped = [r \in Runs |-> FALSE]
    /\ reads = {}
    /\ deliveries = {}
    /\ read_failed = {}
    /\ cleaned = {}
    /\ publish_log = [r \in Runs |-> <<>>]

TotalWrites == Len(submit_log["r1"]) + Len(submit_log["r2"])

\* write_steering_message, lines 36-41: mkdir, choose the name, open the .tmp file
WriteBegin(w, r, text) ==
    /\ w_pc[w] = "idle"
    /\ TotalWrites < MaxWrites
    /\ text = Texts[TotalWrites + 1]
    /\ \E ts \in {clock, clock + 1}, rnd \in RandomSuffixes :
          LET n == [ts |-> ts, pid |-> Pid[w], rnd |-> rnd] IN
          /\ clock' = ts
          /\ w_name' = [w_name EXCEPT ![w] = n]
          /\ files' = files \cup {[run |-> r, name |-> n, ext |-> "tmp", content |-> <<>>]}
    /\ dir_exists' = [dir_exists EXCEPT ![r] = TRUE]
    /\ w_pc' = [w_pc EXCEPT ![w] = "write"]
    /\ w_run' = [w_run EXCEPT ![w] = r]
    /\ w_text' = [w_text EXCEPT ![w] = text]
    /\ submit_log' = [submit_log EXCEPT ![r] = Append(@, text)]
    /\ overlapped' = [overlapped EXCEPT ![r] =
                          @ \/ \E v \in Writers \ {w} : w_pc[v] # "idle" /\ w_run[v] = r]
    /\ UNCHANGED <<p_run, p_pc, p_pending, reads, deliveries, read_failed, cleaned, publish_log>>
    /\ UNCHANGED streamVars

\* write_steering_message, line 41: write_text hands the next chunk to the file
WriteChunk(w) ==
    /\ w_pc[w] = "write"
    /\ LET cur == FileAt(w_run[w], w_name[w], "tmp") IN
       /\ cur # {}
       /\ LET f == CHOOSE g \in cur : TRUE
              k == Len(f.content) + 1
          IN /\ k <= Len(w_text[w])
             /\ files' = (files \ {f}) \cup {[f EXCEPT !.content = Append(@, w_text[w][k])]}
    /\ UNCHANGED <<clock, dir_exists, w_pc, w_run, w_text, w_name,
                   p_run, p_pc, p_pending, submit_log, overlapped, reads, deliveries,
                   read_failed, cleaned, publish_log>>
    /\ UNCHANGED streamVars

\* write_steering_message, line 43: tmp_file.rename(... .msg), the publish point
WriteRename(w) ==
    /\ w_pc[w] = "write"
    /\ LET cur == FileAt(w_run[w], w_name[w], "tmp") IN
       /\ cur # {}
       /\ LET f == CHOOSE g \in cur : TRUE IN
             /\ f.content = w_text[w]
             /\ files' = (files \ {f}) \cup {[f EXCEPT !.ext = "msg"]}
    /\ clock' = Max(clock, w_name[w].ts + 1)
    /\ w_pc' = [w_pc EXCEPT ![w] = "idle"]
    /\ publish_log' = [publish_log EXCEPT ![w_run[w]] =
                          Append(@, [name |-> w_name[w], text |-> w_text[w]])]
    /\ UNCHANGED <<dir_exists, w_run, w_text, w_name,
                   p_run, p_pc, p_pending, submit_log, overlapped, reads, deliveries,
                   read_failed, cleaned>>
    /\ UNCHANGED streamVars

\* a poller whose loop never tests event_stream.closed
PollScanIgnoresClose(p) ==
    /\ p_pc[p] = "loop"
    /\ LET listing == IF dir_exists[p_run[p]]
                          THEN SortPaths(GlobMsg(p_run[p])) ELSE <<>>
       IN /\ p_pending' = [p_pending EXCEPT ![p] = listing]
          /\ p_pc' = [p_pc EXCEPT ![p] = IF listing = <<>> THEN "loop" ELSE "read"]
    /\ UNCHANGED <<clock, dir_exists, files, w_pc, w_run, w_text, w_name,
                   p_run, submit_log, overlapped, reads, deliveries, read_failed, cleaned, publish_log>>
    /\ UNCHANGED streamVars

\* poll_steering_messages, lines 64-67: loop test, then list and sort the .msg files
PollScan(p) ==
    /\ p_pc[p] = "loop"
    /\ IF closed[PollStream[p]]
          THEN /\ p_pc' = [p_pc EXCEPT ![p] = "done"]
               /\ UNCHANGED p_pending
          ELSE LET listing == IF dir_exists[p_run[p]]
                                 THEN SortPaths(GlobMsg(p_run[p])) ELSE <<>>
               IN /\ p_pending' = [p_pending EXCEPT ![p] = listing]
                  /\ p_pc' = [p_pc EXCEPT ![p] = IF listing = <<>> THEN "loop" ELSE "read"]
    /\ UNCHANGED <<clock, dir_exists, files, w_pc, w_run, w_text, w_name,
                   p_run, submit_log, overlapped, reads, deliveries, read_failed, cleaned, publish_log>>
    /\ UNCHANGED streamVars

\* a poller that gives up a file whose read failed: it deletes the file unread
PollReadDropsFailed(p, ok) ==
    /\ p_pc[p] = "read"
    /\ ~ok
    /\ LET n == Head(p_pending[p]).name
           cur == FileAt(p_run[p], n, Head(p_pending[p]).ext)
       IN /\ files' = files \ cur
          /\ read_failed' = read_failed \cup {[run |-> p_run[p], name |-> n] : f \in cur}
    /\ p_pending' = [p_pending EXCEPT ![p] = Tail(@)]
    /\ p_pc' = [p_pc EXCEPT ![p] = IF Tail(p_pending[p]) = <<>> THEN "loop" ELSE "read"]
    /\ UNCHANGED <<clock, dir_exists, w_pc, w_run, w_text, w_name,
                   p_run, submit_log, overlapped, reads, deliveries, cleaned, publish_log>>
    /\ UNCHANGED streamVars

\* poll_steering_messages, lines 68-73: read_text then inject. ok = FALSE is a
\* read_text that raises although the file is there (I/O error, undecodable
\* bytes); a file that is gone raises FileNotFoundError. Either exception is
\* caught by the inner handler, which skips the unlink and goes on with the
\* next file of the tick.
PollRead(p, ok) ==
    /\ p_pc[p] = "read"
    /\ LET n == Head(p_pending[p]).name
           r == p_run[p]
           s == PollStream[p]
           cur == FileAt(r, n, Head(p_pending[p]).ext)
       IN IF cur # {} /\ ok
             THEN LET f == CHOOSE g \in cur : TRUE IN
                  /\ reads' = reads \cup {[run |-> r, ext |-> f.ext, content |-> f.content]}
                  /\ InjectEffect(s, f.content)
                  /\ deliveries' = deliveries \cup
                        {[run |-> r, name |-> n, poller |-> p,
                          k |-> Cardinality({d \in deliveries : d.run = r /\ d.name = n}) + 1]}
                  /\ p_pc' = [p_pc EXCEPT ![p] = "unlink"]
                  /\ UNCHANGED <<p_pending, read_failed>>
             ELSE /\ p_pending' = [p_pending EXCEPT ![p] = Tail(@)]
                  /\ p_pc' = [p_pc EXCEPT ![p] = IF Tail(p_pending[p]) = <<>> THEN "loop" ELSE "read"]
                  /\ read_failed' = read_failed \cup {[run |-> r, name |-> n] : f \in cur}
                  /\ UNCHANGED <<reads, deliveries, injection_queue, inject_log>>
    /\ UNCHANGED <<clock, dir_exists, files, w_pc, w_run, w_text, w_name,
                   p_run, submit_log, overlapped, cleaned, publish_log>>
    /\ UNCHANGED <<queue, closed, yielded, iter_done, push_log, close_calls, taken_log, empty_take>>

\* poll_steering_messages, line 71: msg_file.unlink(); FileNotFoundError is swallowed
PollUnlink(p) ==
    /\ p_pc[p] = "unlink"
    /\ files' = files \ FileAt(p_run[p], Head(p_pending[p]).name, Head(p_pending[p]).ext)
    /\ p_pending' = [p_pending EXCEPT ![p] = Tail(@)]
    /\ p_pc' = [p_pc EXCEPT ![p] = IF Tail(p_pending[p]) = <<>> THEN "loop" ELSE "read"]
    /\ UNCHANGED <<clock, dir_exists, w_pc, w_run, w_text, w_name,
                   p_run, submit_log, overlapped, reads, deliveries, read_failed, cleaned, publish_log>>
    /\ UNCHANGED streamVars

\* write_steering_message, lines 41-43: the directory was removed under the
\* writer, so write_text or rename raises FileNotFoundError to the caller
WriteAbort(w) ==
    /\ w_pc[w] = "write"
    /\ FileAt(w_run[w], w_name[w], "tmp") = {}
    /\ clock' = Max(clock, w_name[w].ts + 1)
    /\ w_pc' = [w_pc EXCEPT ![w] = "idle"]
    /\ UNCHANGED <<dir_exists, files, w_run, w_text, w_name,
                   p_run, p_pc, p_pending, submit_log, overlapped, reads, deliveries,
                   read_failed, cleaned, publish_log>>
    /\ UNCHANGED streamVars

\* a cleanup that removes the temporary files only and leaves the directory
CleanupLeavesMessages(r) ==
    /\ files' = {f \in files : f.run # r \/ f.ext = "msg"}
    /\ UNCHANGED <<clock, dir_exists, w_pc, w_run, w_text, w_name,
                   p_run, p_pc, p_pending, submit_log, overlapped, reads, deliveries,
                   read_failed, cleaned, publish_log>>
    /\ UNCHANGED streamVars

\* cleanup_steering_dir, lines 46-50: rmtree of the run's directory if it exists
cleanup_steering_dir(r) ==
    /\ IF dir_exists[r]
          THEN /\ files' = {f \in files : f.run # r}
               /\ dir_exists' = [dir_exists EXCEPT ![r] = FALSE]
               /\ cleaned' = cleaned \cup {[run |-> r, name |-> g.name] : g \in GlobMsg(r)}
          ELSE UNCHANGED <<files, dir_exists, cleaned>>
    /\ UNCHANGED <<clock, w_pc, w_run, w_text, w_name,
                   p_run, p_pc, p_pending, submit_log, overlapped, reads, deliveries,
                   read_failed, publish_log>>
    /\ UNCHANGED streamVars

\* the run ends: the owner of a poller's stream calls EventStream.close
SteerClose(p) ==
    /\ p_run[p] # NoRun
    /\ close_calls[PollStream[p]] < MaxCloseSteer
    /\ close(PollStream[p])
    /\ UNCHANGED steerVars

(***************************************************************************)
(* Channel Manager  (app/services/channel_manager.py) and the channel      *)
(* binding endpoints (app/api/v1/channels.py)                              *)
(***************************************************************************)
\* uvicorn worker processes, each with its own ChannelManager singleton
Workers == {"w1", "w2"}

\* the worker whose startup calls ChannelManager.start()
LeaderWorker == "w1"

\* ids of ChannelBindingDB rows (generate_uuid); the id of a deleted row is free again
BindingIds == {"b1", "b2"}

ChannelTypes == {"feishu", "telegram"}

ExternalIds == {"chat1", "chat2"}

AppIds == {"A", "B"}

\* a missing key or a null value of a config dict
NoneV == "None"

\* an app_secret as the API returns it: "****" + last four characters
MaskedSecret == "****"

RealSecret == "secret"

\* a key the request's config dict does not contain
Absent == "absent"

AdapterKeys == {"feishu:A", "feishu:B", "telegram"}

\* f"feishu:{app_id}"
FeishuKey(app_id) == IF app_id = "A" THEN "feishu:A" ELSE "feishu:B"

VARIABLES
    bindings,   \* rows of ChannelBindingDB: [id, channel_type, external_id, enabled, app_id, app_secret]
    is_leader,  \* ChannelManager._is_leader, per worker
    adapters,   \* ChannelManager._adapters, per worker: adapter key -> [connected] of the adapter object
    leaked,     \* per worker: keys of adapter objects that are connected but no longer registered
    response    \* the answer to the request being answered

chanVars == <<bindings, is_leader, adapters, leaked, response>>

EmptyDict == [k \in {} |-> NoneV]

NoResponse == [op |-> "none", worker |-> NoneV, status |-> 0, key |-> NoneV, body |-> EmptyDict]

Answer(op, w, status, key, body) ==
    [op |-> op, worker |-> w, status |-> status, key |-> key, body |-> body]

ChanInit ==
    /\ bindings = {}
    /\ is_leader = [w \in Workers |-> FALSE]
    /\ adapters = [w \in Workers |-> EmptyDict]
    /\ leaked = [w \in Workers |-> {}]
    /\ response = NoResponse

\* adapter_key_for_binding
adapter_key_for_binding(b) ==
    IF b.channel_type = "feishu"
       THEN IF b.app_id = NoneV THEN NoneV ELSE FeishuKey(b.app_id)
       ELSE b.channel_type

\* dict.pop(key)
DictPop(d, key) == [k \in DOMAIN d \ {key} |-> d[k]]

\* a freshly constructed adapter after a successful connect()
Connected == [connected |-> TRUE]

\* self._adapters[key] = adapter: an object that was registered under the key
\* and is still connected stays alive without a reference
Register(m, key) ==
    [adapters |-> (key :> Connected) @@ m.adapters,
     leaked |-> IF key \in DOMAIN m.adapters /\ m.adapters[key].connected
                   THEN m.leaked \cup {key} ELSE m.leaked]

\* the state of one worker's manager
Mgr(w) == [adapters |-> adapters[w], leaked |-> leaked[w]]

\* _start_feishu_adapter without the "already running" test
StartAlways(m, app_id, ok) ==
    IF ok THEN Register(m, FeishuKey(app_id)) ELSE m

\* ChannelManager._start_feishu_adapter; ok: connect() did not raise
_start_feishu_adapter(m, app_id, ok) ==
    IF FeishuKey(app_id) \in DOMAIN m.adapters THEN m
    ELSE IF ok THEN Register(m, FeishuKey(app_id))
    ELSE m

\* ChannelManager._stop_adapter: pop the adapter and disconnect it
_stop_adapter(m, key) ==
    IF key \notin DOMAIN m.adapters THEN m
    ELSE [adapters |-> DictPop(m.adapters, key), leaked |-> m.leaked]

\* the count query of _maybe_stop_feishu_adapter
RemainingEnabled(rows, app_id) ==
    Cardinality({b \in rows : b.channel_type = "feishu" /\ b.enabled /\ b.app_id = app_id})

\* _maybe_stop_feishu_adapter without the count of remaining bindings
StopUnconditionally(m, rows, app_id) == _stop_adapter(m, FeishuKey(app_id))

\* ChannelManager._maybe_stop_feishu_adapter
_maybe_stop_feishu_adapter(m, rows, app_id) ==
    LET key == FeishuKey(app_id)
    IN IF key \notin DOMAIN m.adapters THEN m
       ELSE IF RemainingEnabled(rows, app_id) = 0 THEN _stop_adapter(m, key)
       ELSE m

\* on_binding_created without the leader test
CreatedHookAnyWorker(m, leader, rows, id, ok) ==
    LET found == {b \in rows : b.id = id} IN
    IF found = {} THEN m
    ELSE LET b == CHOOSE x \in found : TRUE IN
         IF b.channel_type # "feishu" THEN m
         ELSE IF b.app_id # NoneV /\ b.app_secret # NoneV
                 THEN _start_feishu_adapter(m, b.app_id, ok)
                 ELSE m

\* ChannelManager.on_binding_created
on_binding_created(m, leader, rows, id, ok) ==
    IF ~leader THEN m
    ELSE LET found == {b \in rows : b.id = id} IN
         IF found = {} THEN m
         ELSE LET b == CHOOSE x \in found : TRUE IN
              IF b.channel_type # "feishu" THEN m
              ELSE IF b.app_id # NoneV /\ b.app_secret # NoneV
                      THEN _start_feishu_adapter(m, b.app_id, ok)
                      ELSE m

\* ChannelManager.on_binding_updated
on_binding_updated(m, leader, rows, id, old_app_id, ok) ==
    IF ~leader THEN m
    ELSE LET found == {b \in rows : b.id = id} IN
         IF found = {} THEN m
         ELSE LET b == CHOOSE x \in found : TRUE
                  started == IF b.app_id # NoneV /\ b.app_secret # NoneV
                                THEN _start_feishu_adapter(m, b.app_id, ok)
                                ELSE m
              IN IF b.channel_type # "feishu" THEN m
                 ELSE IF old_app_id # NoneV /\ old_app_id # b.app_id
                         THEN _maybe_stop_feishu_adapter(started, rows, old_app_id)
                         ELSE started

\* ChannelManager.on_binding_deleted
on_binding_deleted(m, leader, rows, app_id) ==
    IF ~leader THEN m
    ELSE IF app_id = NoneV THEN m
    ELSE _maybe_stop_feishu_adapter(m, rows, app_id)

\* _merge_config: keys of the request overwrite, a masked secret keeps the stored one
_merge_config(existing, incoming) ==
    [app_id |-> IF incoming.app_id = Absent THEN existing.app_id ELSE incoming.app_id,
     app_secret |-> IF incoming.app_secret \in {Absent, MaskedSecret}
                       THEN existing.app_secret ELSE incoming.app_secret]

\* the manager state m becomes the state of worker w
SetMgr(w, m) ==
    /\ adapters' = [adapters EXCEPT ![w] = m.adapters]
    /\ leaked' = [leaked EXCEPT ![w] = m.leaked]

\* the adapter key of the app_id a hook receives in the old config (adapter_key_for_binding
\* applied to the row as it was)
OldKey(old) == IF old.app_id = NoneV THEN NoneV ELSE FeishuKey(old.app_id)

\* the row with the given id, as a set (empty when there is none)
RowById(id) == {b \in bindings : b.id = id}

\* POST /channels (create_channel_binding): 409 on a duplicate (channel_type, external_id),
\* else insert the row, commit and call on_binding_created on the answering worker
\* a lookup that never finds the pair
ExistingNeverFound(ct, ext) == {}

\* the rows create_channel_binding looks up before it inserts: those with the
\* request's (channel_type, external_id)
ExistingBinding(ct, ext) ==
    {b \in bindings : b.channel_type = ct /\ b.external_id = ext}

create_channel_binding(w, ct, ext, app_id, app_secret, ok) ==
    IF ExistingBinding(ct, ext) # {}
       THEN /\ response' = Answer("create", w, 409, NoneV, EmptyDict)
            /\ UNCHANGED <<bindings, is_leader, adapters, leaked>>
       ELSE /\ \E x \in BindingIds : RowById(x) = {}
            /\ LET id == CHOOSE x \in BindingIds : RowById(x) = {}
                   row == [id |-> id, channel_type |-> ct, external_id |-> ext, enabled |-> TRUE,
                           app_id |-> app_id, app_secret |-> app_secret]
                   rows == bindings \cup {row}
               IN /\ bindings' = rows
                  /\ SetMgr(w, on_binding_created(Mgr(w), is_leader[w], rows, id, ok))
                  /\ response' = Answer("create", w, 200, adapter_key_for_binding(row), EmptyDict)
            /\ UNCHANGED is_leader

\* PUT /channels/{id} (update_channel_binding): merge the config, commit and call
\* on_binding_updated on the answering worker with the previous config
update_channel_binding(w, id, in_app_id, in_app_secret, ok) ==
    IF RowById(id) = {}
       THEN /\ response' = Answer("update", w, 404, NoneV, EmptyDict)
            /\ UNCHANGED <<bindings, is_leader, adapters, leaked>>
       ELSE LET old == CHOOSE b \in RowById(id) : TRUE
                cfg == _merge_config([app_id |-> old.app_id, app_secret |-> old.app_secret],
                                     [app_id |-> in_app_id, app_secret |-> in_app_secret])
                row == [old EXCEPT !.app_id = cfg.app_id, !.app_secret = cfg.app_secret]
                rows == (bindings \ {old}) \cup {row}
            IN /\ bindings' = rows
               /\ SetMgr(w, on_binding_updated(Mgr(w), is_leader[w], rows, id, old.app_id, ok))
               /\ response' = Answer("update", w, 200, OldKey(old), EmptyDict)
               /\ UNCHANGED is_leader

\* DELETE /channels/{id} (delete_channel_binding): delete the row, commit and call
\* on_binding_deleted on the answering worker with the deleted row's config
delete_channel_binding(w, id) ==
    IF RowById(id) = {}
       THEN /\ response' = Answer("delete", w, 404, NoneV, EmptyDict)
            /\ UNCHANGED <<bindings, is_leader, adapters, leaked>>
       ELSE LET old == CHOOSE b \in RowById(id) : TRUE
                rows == bindings \ {old}
            IN /\ bindings' = rows
               /\ SetMgr(w, on_binding_deleted(Mgr(w), is_leader[w], rows, old.app_id))
               /\ response' = Answer("delete", w, 200, OldKey(old), EmptyDict)
               /\ UNCHANGED is_leader

\* POST /channels/{id}/toggle (toggle_channel_binding): flips enabled; no hook is called
toggle_channel_binding(w, id) ==
    IF RowById(id) = {}
       THEN /\ response' = Answer("toggle", w, 404, NoneV, EmptyDict)
            /\ UNCHANGED <<bindings, is_leader, adapters, leaked>>
       ELSE LET old == CHOOSE b \in RowById(id) : TRUE IN
            /\ bindings' = (bindings \ {old}) \cup {[old EXCEPT !.enabled = ~old.enabled]}
            /\ response' = Answer("toggle", w, 200, NoneV, EmptyDict)
            /\ UNCHANGED <<is_leader, adapters, leaked>>

\* app_ids of the enabled Feishu bindings that carry both credentials
SeenAppIds(rows) ==
    {b.app_id : b \in {x \in rows : /\ x.channel_type = "feishu" /\ x.enabled
                                    /\ x.app_id # NoneV /\ x.app_secret # NoneV}}

RECURSIVE StartAll(_, _, _)
\* the loop of _start_feishu_adapters_from_db over seen_app_ids; oks: the apps whose connect() succeeds
StartAll(m, todo, oks) ==
    IF todo = {} THEN m
    ELSE LET a == CHOOSE x \in todo : TRUE
         IN StartAll(_start_feishu_adapter(m, a, a \in oks), todo \ {a}, oks)

\* the Telegram part of ChannelManager.start; ok: settings.telegram_bot_token is
\* set and connect() did not raise
StartTelegram(m, ok) == IF ok THEN Register(m, "telegram") ELSE m

\* ChannelManager.start, called once by the startup of the leader worker
start(w, oks, tg_ok) ==
    /\ w = LeaderWorker
    /\ ~is_leader[w]
    /\ is_leader' = [is_leader EXCEPT ![w] = TRUE]
    /\ SetMgr(w, StartTelegram(StartAll(Mgr(w), SeenAppIds(bindings), oks), tg_ok))
    /\ response' = Answer("start", w, 0, NoneV, EmptyDict)
    /\ UNCHANGED bindings

\* the status dict of a non-leader: every key derived from an enabled binding, assumed connected
ExpectedStatus(rows) ==
    LET keys == {adapter_key_for_binding(b) : b \in {x \in rows : x.enabled}} \ {NoneV}
    IN [k \in keys |-> TRUE]

\* ChannelManager.get_adapter_status: is_connected() of every registered adapter
LocalStatus(w) == [k \in DOMAIN adapters[w] |-> adapters[w][k].connected]

\* GET /channels/adapters answered from the local registry on every worker
StatusFromRegistry(w) ==
    /\ response' = Answer("status", w, 200, NoneV, LocalStatus(w))
    /\ UNCHANGED <<bindings, is_leader, adapters, leaked>>

\* GET /channels/adapters (get_adapter_status)
get_adapter_status(w) ==
    /\ response' = Answer("status", w, 200, NoneV,
                          IF is_leader[w] THEN LocalStatus(w) ELSE ExpectedStatus(bindings))
    /\ UNCHANGED <<bindings, is_leader, adapters, leaked>>

\* POST /channels/adapters/{adapter_type}/restart (restart_adapter) with
\* ChannelManager.restart_adapter: disconnect(), then connect(); ok: connect() did not raise
restart_adapter(w, key, ok) ==
    IF key \notin DOMAIN adapters[w]
       THEN /\ response' = Answer("restart", w, IF ~is_leader[w] THEN 202 ELSE 404, key, EmptyDict)
            /\ UNCHANGED <<bindings, is_leader, adapters, leaked>>
       ELSE /\ adapters' = [adapters EXCEPT ![w][key].connected = ok]
            /\ response' = Answer("restart", w, 200, key, (key :> ok))
            /\ UNCHANGED <<bindings, is_leader, leaked>>

\* the answer of the last request has been sent
deliver_response ==
    /\ response # NoResponse
    /\ response' = NoResponse
    /\ UNCHANGED <<bindings, is_leader, adapters, leaked>>

(***************************************************************************)
(* Task Scheduler (app/services/scheduler.py, app/api/v1/scheduler.py)     *)
(*                                                                         *)
(* Times are seconds on a discrete clock.  A schedule_value string is kept *)
(* as the value it parses to, tagged by the one format it parses in:       *)
(* "int" (decimal seconds), "iso" (an ISO datetime, as its second) and     *)
(* "cron" (a cron expression that fires at every multiple of n seconds).   *)
(* A NULL datetime column is NoTime and a NULL max_runs is NoMax.          *)
(***************************************************************************)
MaxNow == 20
MaxRunLogs == 2

MinInterval == 10
\* the clock advances in steps of the smallest interval
TickSeconds == MinInterval
NoTime == -1
NoMax == 0
TaskIds == {"t1"}
\* one task name: the unique name column then admits one live task at a time
TaskNames == {"n1"}
ScheduleTypes == {"cron", "interval", "once"}
ScheduleValues == {[fmt |-> "int", n |-> 10], [fmt |-> "int", n |-> 5],
                   [fmt |-> "iso", n |-> 20], [fmt |-> "cron", n |-> 20]}
MaxRunsInputs == {NoMax, 1, 2}
NoTask == [status |-> "none"]
DeletedTask == [status |-> "deleted"]

VARIABLES
    now,            \* datetime.utcnow()
    tasks,          \* scheduled_tasks table: task id -> row, NoTask or DeletedTask
    run_logs,       \* task_run_logs table: run log id -> row
    log_seq,        \* number of run log rows created so far
    sched_running,  \* TaskScheduler._running
    to_start,       \* committed dispatches whose thread is about to be started:
                    \* the (task_id, run_log_id) arguments of the thread
    executions,     \* threads started and not returned, by their arguments
    sched_response  \* the answer of the scheduled-tasks request handled last

schedVars == <<now, tasks, run_logs, log_seq, sched_running, to_start, executions,
               sched_response>>

NoSchedResponse == [op |-> "none"]

\* args=(task_id, run_log_id) of an execution thread
ThreadArgs(task_id, run_log_id) == [task_id |-> task_id, run_log_id |-> run_log_id]

SchedAnswer(op, id, status) == [op |-> op, id |-> id, status |-> status]

SchedInit ==
    /\ now = 0
    /\ tasks = [id \in TaskIds |-> NoTask]
    /\ run_logs = EmptyDict
    /\ log_seq = 0
    /\ sched_running = FALSE
    /\ to_start = {}
    /\ executions = {}
    /\ sched_response = NoSchedResponse

Exists(id) == tasks[id].status \in {"active", "paused", "completed"}

\* croniter(schedule_value, now).get_next(): the first firing time after now
CronNext(period, from) == ((from \div period) + 1) * period

\* a next run that leaves the interval out
NextRunWithoutInterval(schedule_type, schedule_value, from_time) == from_time

_calculate_next_run(schedule_type, schedule_value, from_time) ==
    IF schedule_type = "cron" /\ schedule_value.fmt = "cron"
       THEN CronNext(schedule_value.n, from_time)
    ELSE IF schedule_type = "interval" /\ schedule_value.fmt = "int"
       THEN from_time + schedule_value.n
    ELSE IF schedule_type = "once" /\ schedule_value.fmt = "iso"
       THEN (IF schedule_value.n > from_time THEN schedule_value.n ELSE NoTime)
    ELSE NoTime

\* TRUE when validate_schedule returns None (no error message)
\* a validation that looks at the schedule type alone
ValidateTypeOnly(schedule_type, schedule_value) ==
    schedule_type \in ScheduleTypes

validate_schedule(schedule_type, schedule_value) ==
    /\ schedule_type \in ScheduleTypes
    /\ schedule_type = "cron" => schedule_value.fmt = "cron"
    /\ schedule_type = "interval" =>
           schedule_value.fmt = "int" /\ ~(schedule_value.n < MinInterval)
    /\ schedule_type = "once" => schedule_value.fmt = "iso"

NameTaken(name) == \E id \in TaskIds : Exists(id) /\ tasks[id].name = name


\* the task ids not used yet (generate_uuid never repeats one)
FreshIds == {i \in TaskIds : tasks[i] = NoTask}

\* POST /scheduled-tasks; a rejected request (422, 400, 409) persists nothing
create_scheduled_task(name, schedule_type, schedule_value, max_runs, agent_found) ==
    /\ FreshIds # {}
    /\ UNCHANGED <<now, run_logs, log_seq, sched_running, to_start, executions>>
    /\ IF schedule_type \notin ScheduleTypes
          THEN /\ sched_response' = SchedAnswer("create", NoneV, 422)
               /\ UNCHANGED tasks
       ELSE IF ~agent_found
          THEN /\ sched_response' = SchedAnswer("create", NoneV, 400)
               /\ UNCHANGED tasks
       ELSE IF ~validate_schedule(schedule_type, schedule_value)
          THEN /\ sched_response' = SchedAnswer("create", NoneV, 400)
               /\ UNCHANGED tasks
       ELSE IF NameTaken(name)
          THEN /\ sched_response' = SchedAnswer("create", NoneV, 409)
               /\ UNCHANGED tasks
       ELSE LET id == CHOOSE i \in FreshIds : TRUE
            IN /\ tasks' = [tasks EXCEPT ![id] =
                      [name |-> name,
                       schedule_type |-> schedule_type,
                       schedule_value |-> schedule_value,
                       max_runs |-> max_runs,
                       next_run |-> _calculate_next_run(schedule_type, schedule_value, now),
                       last_run |-> NoTime,
                       status |-> "active",
                       run_count |-> 0]]
               /\ sched_response' = SchedAnswer("create", id, 201)

Field(update_fields, key, default) ==
    IF key \in DOMAIN update_fields THEN update_fields[key] ELSE default


\* PUT /scheduled-tasks/{task_id}; update_fields is model_dump(exclude_unset=True);
\* a rejected request (404, 422, 400, 409) persists nothing
update_scheduled_task(id, update_fields) ==
    /\ IF "schedule_type" \in DOMAIN update_fields
             /\ update_fields["schedule_type"] \notin ScheduleTypes
          THEN /\ sched_response' = SchedAnswer("update", id, 422)
               /\ UNCHANGED tasks
       ELSE IF ~Exists(id)
          THEN /\ sched_response' = SchedAnswer("update", id, 404)
               /\ UNCHANGED tasks
       ELSE LET task == tasks[id]
                schedule_type == Field(update_fields, "schedule_type", task.schedule_type)
                schedule_value == Field(update_fields, "schedule_value", task.schedule_value)
                rescheduled == "schedule_type" \in DOMAIN update_fields
                                   \/ "schedule_value" \in DOMAIN update_fields
            IN IF rescheduled /\ ~validate_schedule(schedule_type, schedule_value)
                  THEN /\ sched_response' = SchedAnswer("update", id, 400)
                       /\ UNCHANGED tasks
               ELSE IF /\ "name" \in DOMAIN update_fields
                       /\ update_fields["name"] # task.name
                       /\ NameTaken(update_fields["name"])
                  THEN /\ sched_response' = SchedAnswer("update", id, 409)
                       /\ UNCHANGED tasks
               ELSE /\ tasks' = [tasks EXCEPT ![id] =
                           [task EXCEPT
                               !.next_run = IF rescheduled
                                               THEN _calculate_next_run(schedule_type,
                                                                        schedule_value, now)
                                               ELSE @,
                               !.name = Field(update_fields, "name", @),
                               !.schedule_type = schedule_type,
                               !.schedule_value = schedule_value,
                               !.max_runs = Field(update_fields, "max_runs", @)]]
                    /\ sched_response' = SchedAnswer("update", id, 200)
    /\ UNCHANGED <<now, run_logs, log_seq, sched_running, to_start, executions>>


\* DELETE /scheduled-tasks/{task_id}: the task and, by the cascade of
\* ScheduledTaskDB.run_logs, its run logs
delete_scheduled_task(id) ==
    /\ UNCHANGED <<now, log_seq, sched_running, to_start, executions>>
    /\ IF ~Exists(id)
          THEN /\ sched_response' = SchedAnswer("delete", id, 404)
               /\ UNCHANGED <<tasks, run_logs>>
          ELSE /\ tasks' = [tasks EXCEPT ![id] = DeletedTask]
               /\ run_logs' = [l \in {x \in DOMAIN run_logs : run_logs[x].task_id # id}
                                 |-> run_logs[l]]
               /\ sched_response' = SchedAnswer("delete", id, 204)


\* POST /scheduled-tasks/{task_id}/pause
pause_task(id) ==
    /\ UNCHANGED <<now, run_logs, log_seq, sched_running, to_start, executions>>
    /\ IF ~Exists(id)
          THEN /\ sched_response' = SchedAnswer("pause", id, 404)
               /\ UNCHANGED tasks
       ELSE IF tasks[id].status # "active"
          THEN /\ sched_response' = SchedAnswer("pause", id, 400)
               /\ UNCHANGED tasks
       ELSE /\ tasks' = [tasks EXCEPT ![id].status = "paused"]
            /\ sched_response' = SchedAnswer("pause", id, 200)


\* POST /scheduled-tasks/{task_id}/resume
resume_task(id) ==
    /\ UNCHANGED <<now, run_logs, log_seq, sched_running, to_start, executions>>
    /\ IF ~Exists(id)
          THEN /\ sched_response' = SchedAnswer("resume", id, 404)
               /\ UNCHANGED tasks
       ELSE IF tasks[id].status # "paused"
          THEN /\ sched_response' = SchedAnswer("resume", id, 400)
               /\ UNCHANGED tasks
       ELSE /\ tasks' = [tasks EXCEPT
                   ![id].status = "active",
                   ![id].next_run = _calculate_next_run(tasks[id].schedule_type,
                                                        tasks[id].schedule_value, now)]
            /\ sched_response' = SchedAnswer("resume", id, 200)

RunLog(task_id) ==
    [task_id |-> task_id, started_at |-> now, status |-> "running", error |-> NoneV]


\* a manual run that also advances the schedule, as a poller dispatch does
RunNowReschedules(id) ==
    /\ log_seq < MaxRunLogs
    /\ run_logs' = (log_seq + 1 :> RunLog(id)) @@ run_logs
    /\ log_seq' = log_seq + 1
    /\ tasks' = [tasks EXCEPT ![id].last_run = now, ![id].run_count = @ + 1,
                              ![id].next_run = _calculate_next_run(
                                  tasks[id].schedule_type, tasks[id].schedule_value, now)]
    /\ to_start' = {ThreadArgs(id, log_seq + 1)}

\* TaskScheduler.execute_task_async up to its commit: the run log row and the
\* task's last_run and run_count; the thread is started after the commit
execute_task_async(id) ==
    /\ log_seq < MaxRunLogs
    /\ run_logs' = (log_seq + 1 :> RunLog(id)) @@ run_logs
    /\ log_seq' = log_seq + 1
    /\ tasks' = [tasks EXCEPT ![id].last_run = now, ![id].run_count = @ + 1]
    /\ to_start' = {ThreadArgs(id, log_seq + 1)}

\* POST /scheduled-tasks/{task_id}/run-now
run_task_now(id) ==
    /\ UNCHANGED <<now, sched_running, executions>>
    /\ IF ~Exists(id)
          THEN /\ sched_response' = SchedAnswer("run_now", id, 404)
               /\ UNCHANGED <<tasks, run_logs, log_seq, to_start>>
          ELSE /\ execute_task_async(id)
               /\ sched_response' = SchedAnswer("run_now", id, 200)

\* a poll query that leaves the status out
DueIgnoringStatus ==
    {id \in TaskIds : /\ tasks[id].status \in {"active", "paused", "completed"}
                      /\ tasks[id].next_run # NoTime
                      /\ tasks[id].next_run <= now}

\* the rows the poll query selects
DueTasks ==
    {id \in TaskIds : /\ tasks[id].status = "active"
                      /\ tasks[id].next_run # NoTime
                      /\ tasks[id].next_run <= now}

\* a dispatch that never completes a task
DispatchedNeverCompleted(task, t) ==
    [task EXCEPT
        !.next_run = _calculate_next_run(task.schedule_type, task.schedule_value, t),
        !.last_run = t,
        !.run_count = @ + 1]

\* the task row after the dispatch of one due task at poll time t
Dispatched(task, t) ==
    LET run_count == task.run_count + 1
    IN [task EXCEPT
           !.next_run = _calculate_next_run(task.schedule_type, task.schedule_value, t),
           !.last_run = t,
           !.run_count = run_count,
           !.status = IF task.max_runs # NoMax /\ run_count >= task.max_runs
                         THEN "completed"
                      ELSE IF task.schedule_type = "once" THEN "completed"
                      ELSE @]

RECURSIVE DispatchLogs(_, _, _)
\* one run log row per due task, in the order the loop visits them
DispatchLogs(due, logs, seq) ==
    IF due = {} THEN logs
    ELSE LET id == CHOOSE i \in due : TRUE
         IN DispatchLogs(due \ {id}, (seq + 1 :> RunLog(id)) @@ logs, seq + 1)


\* a pass that starts the threads first and commits nothing before they run
PollStartsBeforeCommit ==
    /\ sched_running
    /\ DueTasks # {}
    /\ log_seq + Cardinality(DueTasks) <= MaxRunLogs
    /\ log_seq' = log_seq + Cardinality(DueTasks)
    /\ executions' = executions \cup {ThreadArgs(id, log_seq') : id \in DueTasks}
    /\ UNCHANGED <<now, tasks, run_logs, to_start, sched_running, sched_response>>

\* TaskScheduler._poll_and_execute, one pass of the polling loop, up to the
\* commit of the due tasks; the threads are started after the commit
_poll_and_execute ==
    /\ sched_running
    /\ DueTasks # {}
    /\ log_seq + Cardinality(DueTasks) <= MaxRunLogs
    /\ tasks' = [id \in TaskIds |->
                    IF id \in DueTasks THEN Dispatched(tasks[id], now) ELSE tasks[id]]
    /\ run_logs' = DispatchLogs(DueTasks, run_logs, log_seq)
    /\ log_seq' = log_seq + Cardinality(DueTasks)
    /\ to_start' = {ThreadArgs(run_logs'[l].task_id, l) :
                         l \in (log_seq + 1)..(log_seq + Cardinality(DueTasks))}
    /\ UNCHANGED <<now, sched_running, executions, sched_response>>

\* thread.start() of a committed dispatch (threading.Thread(target=self._execute_task))
thread_start(args) ==
    /\ args \in to_start
    /\ to_start' = to_start \ {args}
    /\ executions' = executions \cup {args}
    /\ UNCHANGED <<now, tasks, run_logs, log_seq, sched_running, sched_response>>


\* the error recorded when session.get(AgentPresetDB, task.agent_id) finds nothing
PresetNotFound == "Agent preset not found"

\* str(e) of an exception raised while the agent runs
ExceptionText == "agent raised"

\* how an execution whose agent preset exists can end: the agent answers or raises
RunOutcomes == {"completed", "raised"}

\* how an execution can end: as above, or the task's agent preset no longer exists
ExecutionOutcomes == RunOutcomes \cup {"no_preset"}

\* an execution that reports every run as completed
ResultAlwaysCompleted(outcome) == [status |-> "completed", error |-> NoneV]

\* the status and error _execute_task passes to _update_run_log
ExecutionResult(outcome) ==
    IF outcome = "completed" THEN [status |-> "completed", error |-> NoneV]
    ELSE IF outcome = "no_preset" THEN [status |-> "failed", error |-> PresetNotFound]
    ELSE [status |-> "failed", error |-> ExceptionText]

\* TaskScheduler._update_run_log: the row, if it is still there, gets the
\* status and the error
_update_run_log(logs, run_log_id, status, error) ==
    IF run_log_id \in DOMAIN logs
       THEN [logs EXCEPT ![run_log_id].status = status, ![run_log_id].error = error]
       ELSE logs

\* TaskScheduler._execute_task returns; it writes the run log row only
_execute_task(args, outcome) ==
    /\ args \in executions
    /\ executions' = executions \ {args}
    /\ run_logs' = _update_run_log(run_logs, args.run_log_id,
                                   ExecutionResult(outcome).status,
                                   ExecutionResult(outcome).error)
    /\ UNCHANGED <<now, tasks, log_seq, sched_running, to_start, sched_response>>


\* TaskScheduler.start
sched_start ==
    /\ ~sched_running
    /\ sched_running' = TRUE
    /\ UNCHANGED <<now, tasks, run_logs, log_seq, to_start, executions, sched_response>>


\* TaskScheduler.stop
sched_stop ==
    /\ sched_running
    /\ sched_running' = FALSE
    /\ UNCHANGED <<now, tasks, run_logs, log_seq, to_start, executions, sched_response>>


\* the client receives the answer
deliver_sched_response ==
    /\ sched_response # NoSchedResponse
    /\ to_start = {}
    /\ sched_response' = NoSchedResponse
    /\ UNCHANGED <<now, tasks, run_logs, log_seq, sched_running, to_start, executions>>

\* time passes
Tick ==
    /\ now < MaxNow
    /\ now' = now + TickSeconds
    /\ UNCHANGED <<tasks, run_logs, log_seq, sched_running, to_start, executions,
                   sched_response>>

(***************************************************************************)
(* Inbound messages  (ChannelManager._handle_inbound, _run_agent)          *)
(*                                                                         *)
(* A trigger pattern is kept as the string stored in the row; re.search is *)
(* the table ReSearch over the patterns and message texts of the model.    *)
(* A message carries a media list: FeishuAdapter builds it with media=...  *)
(* and _handle_inbound reads msg.media, although the InboundMessage        *)
(* dataclass of app/channels/base.py in this tree does not declare the     *)
(* field; the model follows the two users of the field.                    *)
(***************************************************************************)
MaxInbound == 1

\* external_id of a binding meant for every chat of its credentials
Wildcard == "*"

\* ids of AgentPresetDB rows that exist; a binding may name one that was deleted
Presets == {"p1"}
AgentIds == Presets \cup {"gone"}

\* trigger_pattern values: none, a pattern, a pattern re cannot compile
TriggerPatterns == {NoneV, "^hi", "("}

Contents == {"hi bot", "bye"}

\* f"Error: {str(e)}", the answer _run_agent returns for an agent that raised
ErrorText == "Error: agent failed"

AnswerText == "answer"

\* InboundMessage as the adapters build it: channel_type, external_id (the
\* chat the message came from), content, and whether it carries media
InboundMessages ==
    [channel_type : ChannelTypes, external_id : ExternalIds,
     content : Contents, media : BOOLEAN]

\* what an agent run can do: raise, or return an answer (possibly none) and
\* possibly output files
AgentOutcomes ==
    {[raised |-> TRUE, answer |-> NoneV, files |-> FALSE]}
        \cup [raised : {FALSE}, answer : {NoneV, AnswerText}, files : BOOLEAN]

VARIABLES
    received,          \* the inbound messages the adapters handed over, in order
    channel_messages,  \* rows of ChannelMessageDB, in commit order
    pub_sessions,      \* ids of PublishedSessionDB rows
    agent_runs,        \* the messages for which _run_agent was called
    inflight,          \* handlers that await their agent: [seq, msg, binding]
    sent               \* calls of adapter.send_message: [seq, key, external_id, content]

inboundVars == <<received, channel_messages, pub_sessions, agent_runs, inflight, sent>>

InboundInit ==
    /\ received = << >>
    /\ channel_messages = << >>
    /\ pub_sessions = {}
    /\ agent_runs = {}
    /\ inflight = {}
    /\ sent = << >>

\* re.search(pattern, content): "error" stands for re.error
ReSearch(pattern, content) ==
    IF pattern = "(" THEN "error"
    ELSE IF pattern = "^hi" /\ content = "hi bot" THEN "match"
    ELSE "nomatch"

\* a lookup that takes disabled bindings too
RouteIgnoringEnabled(msg) ==
    {b \in bindings : /\ b.channel_type = msg.channel_type
                      /\ b.external_id = msg.external_id}

\* the binding query of _handle_inbound: the enabled row with the message's
\* channel type and chat id
Route(msg) ==
    {b \in bindings : /\ b.channel_type = msg.channel_type
                      /\ b.external_id = msg.external_id
                      /\ b.enabled}

\* a trigger check that applies the pattern to media messages too
TriggerDropsMedia(binding, msg) ==
    /\ binding.trigger_pattern # NoneV
    /\ ReSearch(binding.trigger_pattern, msg.content) = "nomatch"

\* the trigger check of _handle_inbound: TRUE when the handler returns there
TriggerDrops(binding, msg) ==
    /\ binding.trigger_pattern # NoneV
    /\ ~msg.media
    /\ ReSearch(binding.trigger_pattern, msg.content) = "nomatch"

\* hashlib.sha256(f"{channel_type}:{external_id}").hexdigest()[:36]
SessionId(msg) == <<msg.channel_type, msg.external_id>>

ChannelMessage(binding, direction, content) ==
    [channel_binding_id |-> binding.id, direction |-> direction, content |-> content]

\* _handle_inbound up to the call of _run_agent: routing, trigger check, and
\* in one commit the inbound record and the session; a return before the
\* commit persists nothing
_handle_inbound(msg) ==
    /\ Len(received) < MaxInbound
    /\ received' = Append(received, msg)
    /\ UNCHANGED sent
    /\ LET found == Route(msg)
           binding == CHOOSE b \in found : TRUE
       IN IF found = {}
             THEN UNCHANGED <<channel_messages, pub_sessions, agent_runs, inflight>>
          ELSE IF TriggerDrops(binding, msg)
             THEN UNCHANGED <<channel_messages, pub_sessions, agent_runs, inflight>>
          ELSE IF binding.agent_id \notin Presets
             THEN UNCHANGED <<channel_messages, pub_sessions, agent_runs, inflight>>
          ELSE /\ channel_messages' =
                     Append(channel_messages, ChannelMessage(binding, "inbound", msg.content))
               /\ pub_sessions' = pub_sessions \cup {SessionId(msg)}
               /\ agent_runs' = agent_runs \cup {Len(received) + 1}
               /\ inflight' = inflight \cup
                     {[seq |-> Len(received) + 1, msg |-> msg, binding |-> binding]}

\* an agent runner that turns a failure into no answer
RunAgentSwallows(outcome) ==
    IF outcome.raised
       THEN [answer |-> NoneV, files |-> FALSE]
       ELSE [answer |-> outcome.answer, files |-> outcome.files]

\* _run_agent: (answer, output_files); an exception becomes an error text
_run_agent(outcome) ==
    IF outcome.raised
       THEN [answer |-> ErrorText, files |-> FALSE]
       ELSE [answer |-> outcome.answer, files |-> outcome.files]

\* _get_adapter_for_binding(...) and adapter.is_connected() on the manager
\* that runs the adapters
AdapterReady(binding) ==
    LET key == adapter_key_for_binding(binding)
    IN /\ key # NoneV
       /\ key \in DOMAIN adapters[LeaderWorker]
       /\ adapters[LeaderWorker][key].connected

\* _handle_inbound from the return of _run_agent: the outbound record, then
\* the reply through the adapter of the binding's saved config
reply(ctx, outcome) ==
    /\ ctx \in inflight
    /\ inflight' = inflight \ {ctx}
    /\ LET result == _run_agent(outcome)
           content == IF result.answer = NoneV THEN "" ELSE result.answer
       IN /\ channel_messages' =
                 Append(channel_messages, ChannelMessage(ctx.binding, "outbound", content))
          /\ sent' = IF (result.answer # NoneV \/ result.files) /\ AdapterReady(ctx.binding)
                        THEN Append(sent, [seq |-> ctx.seq,
                                           key |-> adapter_key_for_binding(ctx.binding),
                                           external_id |-> ctx.msg.external_id,
                                           content |-> content])
                        ELSE sent
    /\ UNCHANGED <<received, pub_sessions, agent_runs>>

(***************************************************************************)
(* Steer endpoint  (POST .../chat/{trace_id}/steer)                        *)
(*                                                                         *)
(* The handler is not among the source files; it is written from the       *)
(* specification's description of the endpoint and from the reference      *)
(* tests (tests/test_api/test_published_api.py, TestPublishedSteer). The   *)
(* Event Stream and the Steering Transport it calls are the ones above.    *)
(***************************************************************************)
NoStream == "no_stream"

NoReq == [run |-> NoRun, text |-> <<>>, before |-> 0]

NoAnswer == [status |-> 0, detail |-> NoneV]

NotFound == [status |-> 404, detail |-> "No active run"]

AlreadyCompleted == [status |-> 409, detail |-> "already completed"]

Injected == [status |-> 200, detail |-> "injected"]

VARIABLES
    active_streams,  \* _active_streams of each worker: run -> its local Event Stream
    trace_status,    \* status of the run's trace record in the database
    steer_req,       \* the steer request a worker is writing a steering file for
    steer_response   \* the answer each worker gave to its last steer request

endpointVars == <<active_streams, trace_status, steer_req, steer_response>>

\* run r1 executes on worker w1, which holds its stream s1; r2 is not running
EndpointInit ==
    /\ active_streams = [w \in Writers |-> [r \in Runs |->
                             IF w = "w1" /\ r = "r1" THEN "s1" ELSE NoStream]]
    /\ trace_status = [r \in Runs |-> IF r = "r1" THEN "running" ELSE "none"]
    /\ steer_req = [w \in Writers |-> NoReq]
    /\ steer_response = [w \in Writers |-> NoAnswer]

\* a handler that takes every run without a local stream for a remote one
AnyRunIsRemote(r) == TRUE

\* the run executes on some worker: its trace record is "running"
RunningElsewhere(r) == trace_status[r] = "running"

\* the steer handler on worker w, up to its answer or to the start of the
\* steering file it writes for a remote run
steer(w, r, text) ==
    /\ steer_req[w] = NoReq
    /\ LET s == active_streams[w][r] IN
       IF s # NoStream
          THEN IF closed[s]
                  THEN /\ steer_response' = [steer_response EXCEPT ![w] = AlreadyCompleted]
                       /\ UNCHANGED <<steer_req, streamVars, steerVars>>
                  ELSE /\ Len(inject_log[s]) < MaxInject
                       /\ InjectEffect(s, text)
                       /\ steer_response' = [steer_response EXCEPT ![w] = Injected]
                       /\ UNCHANGED <<queue, closed, yielded, iter_done, push_log,
                                      close_calls, taken_log, empty_take>>
                       /\ UNCHANGED <<steer_req, steerVars>>
          ELSE IF RunningElsewhere(r)
                  THEN /\ WriteBegin(w, r, text)
                       /\ steer_req' = [steer_req EXCEPT ![w] =
                              [run |-> r, text |-> text, before |-> Len(publish_log[r])]]
                       /\ steer_response' = [steer_response EXCEPT ![w] = NoAnswer]
                  ELSE /\ steer_response' = [steer_response EXCEPT ![w] = NotFound]
                       /\ UNCHANGED <<steer_req, streamVars, steerVars>>
    /\ UNCHANGED <<active_streams, trace_status>>

\* write_steering_message has returned: the handler answers
steer_return(w) ==
    /\ steer_req[w] # NoReq
    /\ w_pc[w] = "idle"
    /\ steer_response' = [steer_response EXCEPT ![w] = Injected]
    /\ steer_req' = [steer_req EXCEPT ![w] = NoReq]
    /\ UNCHANGED <<active_streams, trace_status, streamVars, steerVars>>

\* the run ends: its worker marks the trace record completed
trace_completed(r) ==
    /\ trace_status[r] = "running"
    /\ trace_status' = [trace_status EXCEPT ![r] = "completed"]
    /\ UNCHANGED <<active_streams, steer_req, steer_response, streamVars, steerVars>>

(***************************************************************************)
(* FeishuAdapter connection loop  (app/channels/feishu.py, lines 100-172)  *)
(*                                                                         *)
(* One adapter object. connect() starts a daemon thread that runs _run_ws; *)
(* the thread of the k-th call of the adapter is thread k. The loop test   *)
(* "while self._connected" and the call of ws_client.start() that follows  *)
(* it are one step: a disconnect() between the two cannot be told from one *)
(* that arrives when the client has just been entered.                     *)
(***************************************************************************)
MaxCalls == 3

MaxThreads == 2

ThreadIds == 1..MaxCalls

VARIABLES
    _connected,  \* FeishuAdapter._connected
    call_log,    \* history: the connect() and disconnect() calls in their order
    ws_pc,       \* position of each thread in _run_ws
    ws_exit,     \* how ws_client.start() last ended in each thread
    ws_starts    \* history: the threads that entered ws_client.start() after the last disconnect()

feishuVars == <<_connected, call_log, ws_pc, ws_exit, ws_starts>>

FeishuInit ==
    /\ _connected = FALSE
    /\ call_log = <<>>
    /\ ws_pc = [t \in ThreadIds |-> "unborn"]
    /\ ws_exit = [t \in ThreadIds |-> "none"]
    /\ ws_starts = {}

\* FeishuAdapter.connect, lines 100-163: sets the flag and starts a new thread on _run_ws
connect ==
    /\ Len(call_log) < MaxCalls
    /\ Cardinality({t \in ThreadIds : ws_pc[t] # "unborn"}) < MaxThreads
    /\ _connected' = TRUE
    /\ call_log' = Append(call_log, "connect")
    /\ ws_pc' = [ws_pc EXCEPT ![Len(call_log) + 1] = "while"]
    /\ UNCHANGED <<ws_exit, ws_starts>>

\* FeishuAdapter.disconnect, lines 165-172: clears the flag; no thread is stopped or joined
disconnect ==
    /\ Len(call_log) < MaxCalls
    /\ Cardinality({t \in ThreadIds : ws_pc[t] # "unborn"}) < MaxThreads
    /\ _connected' = FALSE
    /\ call_log' = Append(call_log, "disconnect")
    /\ ws_starts' = {}
    /\ UNCHANGED <<ws_pc, ws_exit>>

\* a loop that enters the client without testing the flag
WhileTrue(t) ==
    /\ ws_pc[t] = "while"
    /\ ws_pc' = [ws_pc EXCEPT ![t] = "start"]
    /\ ws_starts' = ws_starts \cup {t}
    /\ UNCHANGED <<_connected, call_log, ws_exit>>

\* _run_ws, lines 147-149: while self._connected: ws_client.start()
ws_while(t) ==
    /\ ws_pc[t] = "while"
    /\ IF _connected
          THEN /\ ws_pc' = [ws_pc EXCEPT ![t] = "start"]
               /\ ws_starts' = ws_starts \cup {t}
          ELSE /\ ws_pc' = [ws_pc EXCEPT ![t] = "done"]
               /\ UNCHANGED ws_starts
    /\ UNCHANGED <<_connected, call_log, ws_exit>>

\* _run_ws, lines 149-151: ws_client.start() returns, or raises and the
\* exception is logged
ws_client_ends(t, how) ==
    /\ ws_pc[t] = "start"
    /\ ws_pc' = [ws_pc EXCEPT ![t] = "check"]
    /\ ws_exit' = [ws_exit EXCEPT ![t] = how]
    /\ UNCHANGED <<_connected, call_log, ws_starts>>

\* _run_ws, lines 152-154: if self._connected: time.sleep(5)
ws_check(t) ==
    /\ ws_pc[t] = "check"
    /\ ws_pc' = [ws_pc EXCEPT ![t] = IF _connected THEN "sleep" ELSE "while"]
    /\ UNCHANGED <<_connected, call_log, ws_exit, ws_starts>>

\* _run_ws, line 154: the backoff has elapsed
ws_wake(t) ==
    /\ ws_pc[t] = "sleep"
    /\ ws_pc' = [ws_pc EXCEPT ![t] = "while"]
    /\ UNCHANGED <<_connected, call_log, ws_exit, ws_starts>>

(***************************************************************************)
(* FeishuAdapter inbound deduplication  (app/channels/feishu.py, 243-328)  *)
(*                                                                         *)
(* _on_message runs on the adapter's WebSocket thread, one event after the *)
(* other. The cache capacity, 1000 in the program, is scaled down.         *)
(***************************************************************************)
MAX_DEDUP_SIZE == 2

MaxEvents == 4

\* message ids of the platform: one more than the cache holds, so that an
\* evicted id can come again
MessageIds == 1..(MAX_DEDUP_SIZE + 1)

\* what the rest of _on_message does with an event that is not a duplicate:
\* "handled" reaches the inbound handler, "own" is a message of the bot
\* itself, "ignored" has an unsupported type or no content
EventKinds == {"handled", "own", "ignored"}

VARIABLES
    _seen_messages,  \* FeishuAdapter._seen_messages: the keys of the OrderedDict, oldest first
    insert_log,      \* history: every id inserted into the cache, in order
    handed,          \* history: message ids passed to the inbound handler, in order
    events           \* history: number of events received

dedupVars == <<_seen_messages, insert_log, handed, events>>

DedupInit ==
    /\ _seen_messages = <<>>
    /\ insert_log = <<>>
    /\ handed = <<>>
    /\ events = 0

\* a cache that drops its newest entry: popitem(last=True)
EvictNewest(cache) ==
    IF Len(cache) > MAX_DEDUP_SIZE THEN SubSeq(cache, 1, Len(cache) - 1) ELSE cache

\* _on_message, lines 265-266: popitem(last=False) when the cache is over its capacity
Evict(cache) ==
    IF Len(cache) > MAX_DEDUP_SIZE THEN Tail(cache) ELSE cache

\* FeishuAdapter._on_message, lines 243-328
_on_message(msg_id, kind) ==
    /\ events < MaxEvents
    /\ events' = events + 1
    /\ IF msg_id \in Range(_seen_messages)
          THEN UNCHANGED <<_seen_messages, insert_log, handed>>
          ELSE /\ _seen_messages' = Evict(Append(_seen_messages, msg_id))
               /\ insert_log' = Append(insert_log, msg_id)
               /\ handed' = IF kind = "handled" THEN Append(handed, msg_id) ELSE handed

(***************************************************************************)
(* Session store  (app/api/v1/sessions.py)                                 *)
(*                                                                         *)
(* One row of published_sessions with its two columns: messages, the       *)
(* display history, and agent_context, the working context of the agent.   *)
(* save_session_messages selects the row, builds the new display list from *)
(* the list it selected and then updates the row; both statements are      *)
(* awaited, so calls of different requests interleave between the select   *)
(* and the update.  save_session_checkpoint is a single UPDATE.            *)
(***************************************************************************)
MaxSaves == 3

Savers == 1..2

\* Python's None for final_messages and for the agent_context column
NoneList == <<[kind |-> "None", call |-> 0]>>

NoArgs == [final_answer |-> "", request_text |-> "", final_messages |-> NoneList,
           display_append_messages |-> <<>>, call |-> 0]

VARIABLES
    messages,          \* the messages column of the row
    agent_context,     \* the agent_context column of the row
    save_pc,           \* per caller: "idle", or "selected" between select and update
    save_args,         \* per caller: the arguments of the call in progress
    current_display,   \* per caller: session_record.messages as selected
    saves,             \* the calls started so far
    last_call          \* history: the kind of the call that made the last update

sessionVars == <<messages, agent_context, save_pc, save_args, current_display, saves, last_call>>

SessionInit ==
    /\ messages = <<>>
    /\ agent_context = NoneList
    /\ save_pc = [s \in Savers |-> "idle"]
    /\ save_args = [s \in Savers |-> NoArgs]
    /\ current_display = [s \in Savers |-> <<>>]
    /\ saves = 0
    /\ last_call = "none"

\* an entry of the display history, written by call number n
Entry(role, n) == [role |-> role, call |-> n]

\* a working context, written by call number n
Context(kind, n) == <<[kind |-> kind, call |-> n]>>

\* the arguments call number n can have: display entries and working contexts
\* carry the number of their call, so that different calls write different values
SaveArgs(n) ==
    [final_answer : {"", "answer"},
     request_text : {"", "request"},
     final_messages : {NoneList, Context("final", n)},
     display_append_messages : {<<>>, <<Entry("display", n)>>},
     call : {n}]

\* the display list a save builds from the list it selected
NewDisplay(display, args) ==
    IF args.display_append_messages # <<>>
        THEN display \o args.display_append_messages
        ELSE IF args.request_text # ""
                THEN Append(display, Entry("user", args.call))
                     \o (IF args.final_answer # ""
                            THEN <<Entry("assistant", args.call)>>
                            ELSE <<>>)
                ELSE display

\* save_session_messages up to and including the select of the row
save_session_messages(s, args) ==
    /\ saves < MaxSaves
    /\ save_pc[s] = "idle"
    /\ saves' = saves + 1
    /\ save_pc' = [save_pc EXCEPT ![s] = "selected"]
    /\ save_args' = [save_args EXCEPT ![s] = args]
    /\ current_display' = [current_display EXCEPT ![s] = messages]
    /\ UNCHANGED <<messages, agent_context, last_call>>

\* the update and commit of save_session_messages; a failure is swallowed by
\* the except clause and leaves the row as it was
save_session_update(s, ok) ==
    /\ save_pc[s] = "selected"
    /\ save_pc' = [save_pc EXCEPT ![s] = "idle"]
    /\ IF ok
          THEN /\ messages' = NewDisplay(current_display[s], save_args[s])
               /\ agent_context' = IF save_args[s].final_messages # NoneList
                                      THEN save_args[s].final_messages
                                      ELSE agent_context
               /\ last_call' = "save"
          ELSE UNCHANGED <<messages, agent_context, last_call>>
    /\ UNCHANGED <<save_args, current_display, saves>>

save_session_checkpoint(ctx, ok) ==
    /\ saves < MaxSaves
    /\ saves' = saves + 1
    /\ IF ok
          THEN /\ agent_context' = ctx
               /\ last_call' = "checkpoint"
          ELSE UNCHANGED <<agent_context, last_call>>
    /\ UNCHANGED <<messages, save_pc, save_args, current_display>>

(***************************************************************************)
(* Inbound pipeline  (ChannelManager._handle_inbound, step by step)        *)
(*                                                                         *)
(* The handler of one routed message as the sequence of its awaits: the    *)
(* commit of the inbound record and of the session row, agent.run, the     *)
(* save of the session context inside _run_agent, the commit of the        *)
(* outbound record, adapter.send_message.  Handlers of different messages  *)
(* are tasks on one event loop and interleave at these awaits.  A context  *)
(* is the sequence of the turns it holds; the agent returns the history it *)
(* was given extended by its own turn.                                     *)
(***************************************************************************)
MaxHandlers == 2

Handlers == 1..MaxHandlers

\* external_id of the chats the messages come from, all of one channel type
ChatIds == {"chat_a", "chat_b"}

\* agent.run: raises, returns an answer with final_messages, or returns
\* neither an answer nor final_messages
RunResults == {"raised", "answer", "empty"}

PipelineSteps == <<"inbound", "agent", "save", "outbound", "send">>

\* the session id _handle_inbound derives for a chat
ChatSession(chat) == SessionId([channel_type |-> "feishu", external_id |-> chat])

NoSessionRow == [exists |-> FALSE, agent_context |-> <<>>, messages |-> <<>>]

VARIABLES
    h_pc,                  \* per handler: where it is in _handle_inbound
    h_chat,                \* per handler: msg.external_id
    conversation_history,  \* per handler: the context loaded before the agent ran
    run_result,            \* per handler: what agent.run did
    session_rows,          \* PublishedSessionDB by chat: agent_context, messages
    message_rows,          \* ChannelMessageDB rows in commit order: [handler, direction]
    delivered,             \* adapter.send_message calls in order: [handler, chat]
    step_log               \* history: per handler the steps it has taken, in order

pipelineVars ==
    <<h_pc, h_chat, conversation_history, run_result, session_rows, message_rows,
      delivered, step_log>>

PipelineInit ==
    /\ h_pc = [h \in Handlers |-> "idle"]
    /\ h_chat = [h \in Handlers |-> "chat_a"]
    /\ conversation_history = [h \in Handlers |-> <<>>]
    /\ run_result = [h \in Handlers |-> "none"]
    /\ session_rows = [c \in ChatIds |-> NoSessionRow]
    /\ message_rows = <<>>
    /\ delivered = <<>>
    /\ step_log = [h \in Handlers |-> <<>>]

Logged(h, step) == step_log' = [step_log EXCEPT ![h] = Append(@, step)]

\* first transaction: the inbound record, the preset lookup, the session row
\* loaded or created, one commit; without the preset the handler returns and
\* nothing is committed; handler h is the one of the h-th message received
handle_commit(h, chat, preset_found) ==
    /\ h_pc[h] = "idle"
    /\ \A g \in Handlers : g < h => h_pc[g] # "idle"
    /\ h_chat' = [h_chat EXCEPT ![h] = chat]
    /\ IF preset_found
          THEN /\ h_pc' = [h_pc EXCEPT ![h] = "committed"]
               /\ message_rows' = Append(message_rows, [handler |-> h, direction |-> "inbound"])
               /\ conversation_history' =
                     [conversation_history EXCEPT ![h] = session_rows[chat].agent_context]
               /\ session_rows' = [session_rows EXCEPT ![chat].exists = TRUE]
               /\ Logged(h, "inbound")
          ELSE /\ h_pc' = [h_pc EXCEPT ![h] = "done"]
               /\ UNCHANGED <<message_rows, conversation_history, session_rows, step_log>>
    /\ UNCHANGED <<run_result, delivered>>

\* _run_agent is entered and agent.run is called
agent_invoke(h) ==
    /\ h_pc[h] = "committed"
    /\ h_pc' = [h_pc EXCEPT ![h] = "running"]
    /\ Logged(h, "agent")
    /\ UNCHANGED <<h_chat, conversation_history, run_result, session_rows, message_rows,
                   delivered>>

\* agent.run ends; only a result with final_messages reaches the save
agent_return(h, res) ==
    /\ h_pc[h] = "running"
    /\ run_result' = [run_result EXCEPT ![h] = res]
    /\ h_pc' = [h_pc EXCEPT ![h] = IF res = "answer" THEN "returned" ELSE "answered"]
    /\ UNCHANGED <<h_chat, conversation_history, session_rows, message_rows, delivered,
                   step_log>>

\* result.final_messages: the history the agent was given and its own turn
FinalMessages(h) == Append(conversation_history[h], h)

\* the session update of _run_agent: agent_context replaced by final_messages,
\* the display pair appended
save_context(h) ==
    /\ h_pc[h] = "returned"
    /\ h_pc' = [h_pc EXCEPT ![h] = "answered"]
    /\ session_rows' =
          [session_rows EXCEPT ![h_chat[h]] =
              [exists |-> TRUE,
               agent_context |-> FinalMessages(h),
               messages |-> @.messages \o <<[role |-> "user", turn |-> h],
                                            [role |-> "assistant", turn |-> h]>>]]
    /\ Logged(h, "save")
    /\ UNCHANGED <<h_chat, conversation_history, run_result, message_rows, delivered>>

\* a handler that goes on to send when the commit of the outbound record failed
RecordOutboundThenSendAnyway(h, ok) ==
    /\ h_pc[h] = "answered"
    /\ h_pc' = [h_pc EXCEPT ![h] = "recorded"]
    /\ IF ok
          THEN /\ message_rows' = Append(message_rows, [handler |-> h, direction |-> "outbound"])
               /\ Logged(h, "outbound")
          ELSE UNCHANGED <<message_rows, step_log>>
    /\ UNCHANGED <<h_chat, conversation_history, run_result, session_rows, delivered>>

\* second transaction: the outbound record; a commit that raises ends the
\* handler in its except clause
record_outbound(h, ok) ==
    /\ h_pc[h] = "answered"
    /\ IF ok
          THEN /\ h_pc' = [h_pc EXCEPT ![h] = "recorded"]
               /\ message_rows' = Append(message_rows, [handler |-> h, direction |-> "outbound"])
               /\ Logged(h, "outbound")
          ELSE /\ h_pc' = [h_pc EXCEPT ![h] = "done"]
               /\ UNCHANGED <<message_rows, step_log>>
    /\ UNCHANGED <<h_chat, conversation_history, run_result, session_rows, delivered>>

\* the reply: sent when there is an answer (an error text included) and the
\* adapter of the binding is connected
send_message(h, adapter_ready) ==
    /\ h_pc[h] = "recorded"
    /\ h_pc' = [h_pc EXCEPT ![h] = "done"]
    /\ IF run_result[h] # "empty" /\ adapter_ready
          THEN /\ delivered' = Append(delivered, [handler |-> h, chat |-> h_chat[h]])
               /\ Logged(h, "send")
          ELSE UNCHANGED <<delivered, step_log>>
    /\ UNCHANGED <<h_chat, conversation_history, run_result, session_rows, message_rows>>

(***************************************************************************)
(* Scheduler transactions on the shared database                           *)
(*                                                                         *)
(* _poll_and_execute and execute_task_async as the two awaits of their     *)
(* transactions: the SELECT that loads the task rows, and the commit that  *)
(* writes the attributes set on the loaded objects (task.run_count += 1 is *)
(* computed from the loaded value).  Every worker process has its own      *)
(* TaskScheduler and polling loop on the one database; the query takes no  *)
(* row lock.  The tables are the ones of the Task Scheduler above.         *)
(***************************************************************************)
MaxSchedWorkers == 2

SchedWorkers == 1..MaxSchedWorkers

NoPoll == [due |-> EmptyDict, at |-> NoTime]

VARIABLES
    poll_pc,       \* per worker: "idle", or "selected" between the query and the commit
    poll_loaded,   \* per worker: the due rows as loaded by the query, and its now
    run_now_pc,    \* the run-now request: "idle" or "selected"
    run_now_task,  \* the row execute_task_async loaded: [id, row]
    dispatch_log   \* history: every committed dispatch, in commit order

sharedVars == <<poll_pc, poll_loaded, run_now_pc, run_now_task, dispatch_log>>

SharedInit ==
    /\ poll_pc = [w \in SchedWorkers |-> "idle"]
    /\ poll_loaded = [w \in SchedWorkers |-> NoPoll]
    /\ run_now_pc = "idle"
    /\ run_now_task = [id |-> NoneV, row |-> NoTask]
    /\ dispatch_log = <<>>

\* the query of _poll_and_execute on worker w, whose loop is running: the due
\* rows and now
poll_select(w) ==
    /\ poll_pc[w] = "idle"
    /\ DueTasks # {}
    /\ poll_pc' = [poll_pc EXCEPT ![w] = "selected"]
    /\ poll_loaded' = [poll_loaded EXCEPT
                          ![w] = [due |-> [id \in DueTasks |-> tasks[id]], at |-> now]]
    /\ UNCHANGED <<run_now_pc, run_now_task, dispatch_log>>
    /\ UNCHANGED schedVars

RECURSIVE DispatchEntries(_, _, _, _)
\* the dispatches of one pass, in the order the loop visits the loaded rows
DispatchEntries(loaded, ids, how, seq) ==
    IF ids = {} THEN <<>>
    ELSE LET id == CHOOSE i \in ids : TRUE
         IN <<[task_id |-> id, due |-> loaded[id].next_run, how |-> how,
               run_log_id |-> seq + 1]>>
            \o DispatchEntries(loaded, ids \ {id}, how, seq + 1)

\* the commits of _poll_and_execute on worker w and the thread starts that
\* follow them: each loaded row is written back as dispatched, with its run log
poll_commit(w) ==
    /\ poll_pc[w] = "selected"
    /\ LET loaded == poll_loaded[w].due
           ids == DOMAIN loaded
       IN /\ log_seq + Cardinality(ids) <= MaxRunLogs
          /\ tasks' = [id \in TaskIds |->
                          IF id \in ids THEN Dispatched(loaded[id], poll_loaded[w].at)
                                        ELSE tasks[id]]
          /\ run_logs' = DispatchLogs(ids, run_logs, log_seq)
          /\ log_seq' = log_seq + Cardinality(ids)
          /\ executions' = executions \cup
                {ThreadArgs(run_logs'[l].task_id, l) :
                     l \in (log_seq + 1)..(log_seq + Cardinality(ids))}
          /\ dispatch_log' = dispatch_log \o DispatchEntries(loaded, ids, "poll", log_seq)
    /\ poll_pc' = [poll_pc EXCEPT ![w] = "idle"]
    /\ poll_loaded' = [poll_loaded EXCEPT ![w] = NoPoll]
    /\ UNCHANGED <<now, sched_running, to_start, sched_response, run_now_pc, run_now_task>>

\* the query of execute_task_async
run_now_select(id) ==
    /\ run_now_pc = "idle"
    /\ Exists(id)
    /\ run_now_pc' = "selected"
    /\ run_now_task' = [id |-> id, row |-> tasks[id]]
    /\ UNCHANGED <<poll_pc, poll_loaded, dispatch_log>>
    /\ UNCHANGED schedVars

\* the commit of execute_task_async and the thread start that follows it
run_now_commit ==
    /\ run_now_pc = "selected"
    /\ log_seq < MaxRunLogs
    /\ LET id == run_now_task.id
       IN /\ tasks' = [tasks EXCEPT ![id].last_run = now,
                                    ![id].run_count = run_now_task.row.run_count + 1]
          /\ run_logs' = (log_seq + 1 :> RunLog(id)) @@ run_logs
          /\ log_seq' = log_seq + 1
          /\ executions' = executions \cup {ThreadArgs(id, log_seq + 1)}
          /\ dispatch_log' = Append(dispatch_log,
                [task_id |-> id, due |-> NoTime, how |-> "run_now", run_log_id |-> log_seq + 1])
    /\ run_now_pc' = "idle"
    /\ run_now_task' = [id |-> NoneV, row |-> NoTask]
    /\ UNCHANGED <<now, sched_running, to_start, sched_response, poll_pc, poll_loaded>>

(***************************************************************************)
(* Execution unit  (TaskScheduler._execute_task, step by step)             *)
(*                                                                         *)
(* The thread of one dispatch: it loads the task and the preset, runs the  *)
(* agent, writes the run log row, and then, for a task with a target       *)
(* channel and a result with an answer, forwards the answer through the    *)
(* Channel Manager before it returns.                                      *)
(***************************************************************************)
VARIABLES
    forwarding,   \* threads that have written their row and are about to forward
    returned,     \* history: run_log_id -> how the thread that has returned ended
    forward_log   \* history: the forwards attempted: [run_log_id, ok]

execVars == <<forwarding, returned, forward_log>>

ExecInit ==
    /\ forwarding = {}
    /\ returned = EmptyDict
    /\ forward_log = <<>>

\* _execute_task up to the write of the run log row: the task is gone (the
\* thread returns at once), the preset is gone or the run raised (failed), or
\* the agent returned (completed); forwards: the task has a target channel
\* and the result an answer
execute_run(args, outcome, forwards) ==
    /\ args \in executions \ forwarding
    /\ IF tasks[args.task_id] = DeletedTask
          THEN /\ executions' = executions \ {args}
               /\ returned' = (args.run_log_id :> "no_task") @@ returned
               /\ UNCHANGED <<run_logs, forwarding>>
          ELSE /\ run_logs' = _update_run_log(run_logs, args.run_log_id,
                                              ExecutionResult(outcome).status,
                                              ExecutionResult(outcome).error)
               /\ IF outcome = "completed" /\ forwards
                     THEN /\ forwarding' = forwarding \cup {args}
                          /\ UNCHANGED <<executions, returned>>
                     ELSE /\ executions' = executions \ {args}
                          /\ returned' = (args.run_log_id :> outcome) @@ returned
                          /\ UNCHANGED forwarding
    /\ UNCHANGED <<now, tasks, log_seq, sched_running, to_start, sched_response, forward_log>>

\* a forward whose failure reaches the outer except clause
ForwardFailureFailsRun(args, ok) ==
    /\ args \in forwarding
    /\ forwarding' = forwarding \ {args}
    /\ executions' = executions \ {args}
    /\ forward_log' = Append(forward_log, [run_log_id |-> args.run_log_id, ok |-> ok])
    /\ returned' = (args.run_log_id :> "completed") @@ returned
    /\ run_logs' = IF ok THEN run_logs
                   ELSE _update_run_log(run_logs, args.run_log_id, "failed", ExceptionText)
    /\ UNCHANGED <<now, tasks, log_seq, sched_running, to_start, sched_response>>

\* manager.send_to_channel(...) in its own try: a failure is logged, the
\* thread returns
forward_result(args, ok) ==
    /\ args \in forwarding
    /\ forwarding' = forwarding \ {args}
    /\ executions' = executions \ {args}
    /\ forward_log' = Append(forward_log, [run_log_id |-> args.run_log_id, ok |-> ok])
    /\ returned' = (args.run_log_id :> "completed") @@ returned
    /\ UNCHANGED <<now, tasks, run_logs, log_seq, sched_running, to_start, sched_response>>

(***************************************************************************)
(* Scheduler lifecycle  (TaskScheduler.start, stop, _loop)                 *)
(*                                                                         *)
(* start() has no await and runs as one step.  stop() clears the flag,     *)
(* cancels the task it finds in _task and awaits it; other coroutines of   *)
(* the process run during that await; then stop() sets _task to None.  A   *)
(* loop is an asyncio task: it tests the flag, polls, sleeps, and tests    *)
(* again; a cancelled task ends at its next step.  The flag is             *)
(* sched_running of the Task Scheduler above.                              *)
(***************************************************************************)
MaxLoops == 3
MaxLifecycleCalls == 5
MaxLoopPolls == 3

LoopIds == 1..MaxLoops

\* self._task = None
NoLoop == 0

VARIABLES
    _task,            \* TaskScheduler._task: the loop start() created last, or NoLoop
    loop_state,       \* per loop: "none", "waiting" (at the while test or asleep),
                      \* "polling", "ended"
    cancel_requested, \* per loop: task.cancel() was called and not yet delivered
    stop_awaits,      \* the loop a stop() in progress awaits, or NoLoop
    lifecycle_calls,  \* start() and stop() calls made so far
    poll_log          \* history: the loops that began a poll, in order

lifecycleVars ==
    <<_task, loop_state, cancel_requested, stop_awaits, lifecycle_calls, poll_log>>

LifecycleInit ==
    /\ _task = NoLoop
    /\ loop_state = [l \in LoopIds |-> "none"]
    /\ cancel_requested = [l \in LoopIds |-> FALSE]
    /\ stop_awaits = NoLoop
    /\ lifecycle_calls = 0
    /\ poll_log = <<>>

UnusedLoops == {l \in LoopIds : loop_state[l] = "none"}

\* TaskScheduler.start()
start_scheduler ==
    /\ lifecycle_calls < MaxLifecycleCalls
    /\ lifecycle_calls' = lifecycle_calls + 1
    /\ IF sched_running
          THEN UNCHANGED <<sched_running, _task, loop_state>>
          ELSE /\ UnusedLoops # {}
               /\ LET l == CHOOSE x \in UnusedLoops : \A y \in UnusedLoops : x <= y
                  IN /\ sched_running' = TRUE
                     /\ _task' = l
                     /\ loop_state' = [loop_state EXCEPT ![l] = "waiting"]
    /\ UNCHANGED <<cancel_requested, stop_awaits, poll_log>>
    /\ UNCHANGED <<now, tasks, run_logs, log_seq, to_start, executions, sched_response>>

\* TaskScheduler.stop() up to "await self._task"; without a task it runs to its end
stop_begin ==
    /\ lifecycle_calls < MaxLifecycleCalls
    /\ stop_awaits = NoLoop
    /\ lifecycle_calls' = lifecycle_calls + 1
    /\ sched_running' = FALSE
    /\ IF _task # NoLoop
          THEN /\ cancel_requested' =
                     [cancel_requested EXCEPT ![_task] = loop_state[_task] # "ended"]
               /\ stop_awaits' = _task
          ELSE UNCHANGED <<cancel_requested, stop_awaits>>
    /\ UNCHANGED <<_task, loop_state, poll_log>>
    /\ UNCHANGED <<now, tasks, run_logs, log_seq, to_start, executions, sched_response>>

\* stop() after the awaited task has ended: self._task = None
stop_end ==
    /\ stop_awaits # NoLoop
    /\ loop_state[stop_awaits] = "ended"
    /\ stop_awaits' = NoLoop
    /\ _task' = NoLoop
    /\ UNCHANGED <<loop_state, cancel_requested, lifecycle_calls, poll_log>>
    /\ UNCHANGED schedVars

\* a step of the loop task: CancelledError is raised in it, or "while
\* self._running" is tested and _poll_and_execute is entered
loop_test(l) ==
    /\ loop_state[l] = "waiting"
    /\ IF cancel_requested[l]
          THEN /\ loop_state' = [loop_state EXCEPT ![l] = "ended"]
               /\ cancel_requested' = [cancel_requested EXCEPT ![l] = FALSE]
               /\ UNCHANGED poll_log
       ELSE IF sched_running
          THEN /\ Len(poll_log) < MaxLoopPolls
               /\ loop_state' = [loop_state EXCEPT ![l] = "polling"]
               /\ poll_log' = Append(poll_log, l)
               /\ UNCHANGED cancel_requested
          ELSE /\ loop_state' = [loop_state EXCEPT ![l] = "ended"]
               /\ UNCHANGED <<cancel_requested, poll_log>>
    /\ UNCHANGED <<_task, stop_awaits, lifecycle_calls>>
    /\ UNCHANGED schedVars

\* _poll_and_execute returns and the loop sleeps, or the cancellation ends it
loop_sleep(l) ==
    /\ loop_state[l] = "polling"
    /\ loop_state' = [loop_state EXCEPT ![l] = IF cancel_requested[l] THEN "ended" ELSE "waiting"]
    /\ cancel_requested' = [cancel_requested EXCEPT ![l] = FALSE]
    /\ UNCHANGED <<_task, stop_awaits, lifecycle_calls, poll_log>>
    /\ UNCHANGED schedVars

\* the components added after the connection loop
extraVars == <<dedupVars, sessionVars, pipelineVars, sharedVars, execVars, lifecycleVars>>

ExtraInit == DedupInit /\ SessionInit /\ PipelineInit /\ SharedInit /\ ExecInit /\ LifecycleInit

(***************************************************************************)
(* Specifications                                                          *)
(***************************************************************************)
vars ==
    <<streamVars, steerVars, chanVars, schedVars, inboundVars, endpointVars, feishuVars,
      extraVars>>

\* the stream of the run the Event Stream specification follows
TheStream == "s1"

\* the texts the steer endpoint injects directly
InjectTexts == {Texts[1], Texts[2]}

\* EventStream.inject: always accepted
inject(s, message) ==
    /\ Len(inject_log[s]) < MaxInject
    /\ InjectEffect(s, message)
    /\ UNCHANGED <<queue, closed, yielded, iter_done, push_log, close_calls, taken_log, empty_take>>

StreamNext ==
    \/ \E e \in EventTypes : push(TheStream, e)
    \/ close(TheStream)
    \/ \E m \in InjectTexts : inject(TheStream, m)
    \/ aiter_next(TheStream)
    \/ aiter_timeout(TheStream)

\* one poller: p1 drains r1 into s1
OnePoller == p_run = [p \in Pollers |-> IF p = "p1" THEN "r1" ELSE NoRun]

\* the pollers of two workers observe the directory of r1
TwoPollers == p_run = [p \in Pollers |-> "r1"]

\* the channel component at rest
ChanIdle == ChanInit

InitStream == StreamInit /\ SteerInit /\ OnePoller /\ ChanIdle /\ SchedInit /\ InboundInit /\ EndpointInit /\ FeishuInit /\ ExtraInit

SpecStream == InitStream /\ [][StreamNext /\ UNCHANGED <<steerVars, chanVars, schedVars, inboundVars, endpointVars, feishuVars, extraVars>>]_vars

\* the steering side of a stream: the endpoint injects, the agent takes, while
\* the producer pushes and closes
InjectNext ==
    \/ \E e \in EventTypes : push(TheStream, e)
    \/ close(TheStream)
    \/ \E m \in InjectTexts : inject(TheStream, m)
    \/ get_injection_nowait(TheStream)

SpecInject == InitStream /\ [][InjectNext /\ UNCHANGED <<steerVars, chanVars, schedVars, inboundVars, endpointVars, feishuVars, extraVars>>]_vars

SteerNext ==
    \/ \E w \in Writers, r \in Runs, t \in Range(Texts) : WriteBegin(w, r, t)
    \/ \E w \in Writers : WriteChunk(w)
    \/ \E w \in Writers : WriteRename(w)
    \/ \E p \in Pollers : PollScan(p)
    \/ \E p \in Pollers : PollRead(p, TRUE)
    \/ \E p \in Pollers : PollUnlink(p)
    \/ \E p \in Pollers : SteerClose(p)

InitSteer == StreamInit /\ SteerInit /\ OnePoller /\ ChanIdle /\ SchedInit /\ InboundInit /\ EndpointInit /\ FeishuInit /\ ExtraInit

SpecSteer == InitSteer /\ [][SteerNext /\ UNCHANGED <<chanVars, schedVars, inboundVars, endpointVars, feishuVars, extraVars>>]_vars

\* the Steering Transport with reads that may fail
SteerFailNext ==
    \/ SteerNext
    \/ \E p \in Pollers : PollRead(p, FALSE)

SpecSteerFail == InitSteer /\ [][SteerFailNext /\ UNCHANGED <<chanVars, schedVars, inboundVars, endpointVars, feishuVars, extraVars>>]_vars

\* the Steering Transport with the cleanup of run directories, while the
\* poller's stream is open
SteerCleanupNext ==
    \/ \E w \in Writers, r \in Runs, t \in Range(Texts) : WriteBegin(w, r, t)
    \/ \E w \in Writers : WriteChunk(w)
    \/ \E w \in Writers : WriteRename(w)
    \/ \E w \in Writers : WriteAbort(w)
    \/ \E p \in Pollers : PollScan(p)
    \/ \E p \in Pollers : PollRead(p, TRUE)
    \/ \E p \in Pollers : PollUnlink(p)
    \/ \E r \in Runs : cleanup_steering_dir(r)

SpecSteerCleanup == InitSteer /\ [][SteerCleanupNext /\ UNCHANGED <<chanVars, schedVars, inboundVars, endpointVars, feishuVars, extraVars>>]_vars

\* the steps of poller p: the loop test with the scan, a read with its inject, an unlink
PollerStep(p) ==
    /\ PollScan(p) \/ PollRead(p, TRUE) \/ PollUnlink(p)
    /\ UNCHANGED <<chanVars, schedVars, inboundVars, endpointVars, feishuVars, extraVars>>

\* the event loop runs every polling task again and again: a task that can
\* take its next step (the loop test after the sleep, the next file of the
\* tick) eventually takes it
PollerFairness == \A p \in Pollers : WF_vars(PollerStep(p))

SpecSteerLive == SpecSteer /\ PollerFairness

InitSteerShared == StreamInit /\ SteerInit /\ TwoPollers /\ ChanIdle /\ SchedInit /\ InboundInit /\ EndpointInit /\ FeishuInit /\ ExtraInit

SpecSteerShared == InitSteerShared /\ [][SteerNext /\ UNCHANGED <<chanVars, schedVars, inboundVars, endpointVars, feishuVars, extraVars>>]_vars

\* the config (app_id, app_secret) of a create request for a Feishu binding;
\* bindings of other channel types carry no config
CreateConfigs == {<<NoneV, NoneV>>} \cup (AppIds \X {NoneV, RealSecret})

\* values an update request can give to config.app_id / config.app_secret
UpdateAppIds == AppIds \cup {Absent}

UpdateSecrets == {Absent, MaskedSecret, RealSecret}

\* requests are handled one after the other: the next one starts when the last is answered
ChanRequest ==
    \/ \E w \in Workers, oks \in SUBSET AppIds, tg_ok \in BOOLEAN : start(w, oks, tg_ok)
    \/ \E w \in Workers, ext \in ExternalIds, cfg \in CreateConfigs, ok \in BOOLEAN :
          create_channel_binding(w, "feishu", ext, cfg[1], cfg[2], ok)
    \/ \E w \in Workers, ext \in ExternalIds :
          create_channel_binding(w, "telegram", ext, NoneV, NoneV, TRUE)
    \/ \E w \in Workers, id \in BindingIds, a \in UpdateAppIds, sec \in UpdateSecrets,
          ok \in BOOLEAN :
          \* credentials are sent to Feishu bindings only
          /\ (\E b \in RowById(id) : b.channel_type # "feishu") => (a = Absent /\ sec = Absent)
          /\ update_channel_binding(w, id, a, sec, ok)
    \/ \E w \in Workers, id \in BindingIds : delete_channel_binding(w, id)
    \/ \E w \in Workers, id \in BindingIds : toggle_channel_binding(w, id)
    \/ \E w \in Workers : get_adapter_status(w)
    \/ \E w \in Workers, key \in AdapterKeys, ok \in BOOLEAN : restart_adapter(w, key, ok)

ChanNext ==
    \/ response = NoResponse /\ ChanRequest
    \/ deliver_response

InitChannel == StreamInit /\ SteerInit /\ OnePoller /\ ChanInit /\ SchedInit /\ InboundInit /\ EndpointInit /\ FeishuInit /\ ExtraInit

SpecChannel == InitChannel /\ [][ChanNext /\ UNCHANGED <<streamVars, steerVars, schedVars, inboundVars, endpointVars, feishuVars, extraVars>>]_vars

\* the bodies of the update requests: each is the set of fields the client sent
UpdateRequests ==
    {[name |-> n] : n \in TaskNames}
        \cup {[max_runs |-> m] : m \in MaxRunsInputs}
        \cup {[schedule_value |-> v] : v \in ScheduleValues}
        \cup {[schedule_type |-> ty] : ty \in ScheduleTypes \cup {"weekly"}}
        \cup {[schedule_type |-> ty, schedule_value |-> v] :
                  ty \in ScheduleTypes, v \in ScheduleValues}


\* the schedule types a client may send: the three the API knows and one it does not
ScheduleTypeInputs == ScheduleTypes \cup {"weekly"}

SchedRequest ==
    \/ \E name \in TaskNames, ty \in ScheduleTypeInputs, v \in ScheduleValues,
          m \in MaxRunsInputs, agent_found \in BOOLEAN :
           create_scheduled_task(name, ty, v, m, agent_found)
    \/ \E id \in TaskIds, update_fields \in UpdateRequests :
           update_scheduled_task(id, update_fields)
    \/ \E id \in TaskIds : delete_scheduled_task(id)
    \/ \E id \in TaskIds : pause_task(id)
    \/ \E id \in TaskIds : resume_task(id)
    \/ \E id \in TaskIds : run_task_now(id)


\* a handler runs when the previous request is answered and no thread start is pending
SchedIdle == sched_response = NoSchedResponse /\ to_start = {}

SchedNext ==
    \/ SchedIdle /\ SchedRequest
    \/ SchedIdle /\ sched_start
    \/ SchedIdle /\ sched_stop
    \/ SchedIdle /\ _poll_and_execute
    \/ \E args \in to_start : thread_start(args)
    \/ SchedIdle /\ \E args \in executions, outcome \in RunOutcomes :
                        _execute_task(args, outcome)
    \/ deliver_sched_response
    \/ SchedIdle /\ Tick

InitSched == StreamInit /\ SteerInit /\ OnePoller /\ ChanIdle /\ SchedInit /\ InboundInit /\ EndpointInit /\ FeishuInit /\ ExtraInit
SpecSched == InitSched /\ [][SchedNext /\ UNCHANGED <<streamVars, steerVars, chanVars, inboundVars, endpointVars, feishuVars, extraVars>>]_vars

\* the scheduler with agent presets that can be gone when an execution
\* starts: tasks are created, paused, resumed and run by hand, the poller
\* dispatches, and every execution ends in one of ExecutionOutcomes
SchedExecRequest ==
    \/ \E name \in TaskNames, ty \in ScheduleTypes, v \in ScheduleValues,
          m \in MaxRunsInputs :
           create_scheduled_task(name, ty, v, m, TRUE)
    \/ \E id \in TaskIds : pause_task(id)
    \/ \E id \in TaskIds : resume_task(id)
    \/ \E id \in TaskIds : run_task_now(id)

SchedExecNext ==
    \/ SchedIdle /\ SchedExecRequest
    \/ SchedIdle /\ sched_start
    \/ SchedIdle /\ _poll_and_execute
    \/ \E args \in to_start : thread_start(args)
    \/ SchedIdle /\ \E args \in executions, outcome \in ExecutionOutcomes :
                        _execute_task(args, outcome)
    \/ deliver_sched_response
    \/ SchedIdle /\ Tick

SpecSchedExec ==
    InitSched /\ [][SchedExecNext /\ UNCHANGED <<streamVars, steerVars, chanVars, inboundVars, endpointVars, feishuVars, extraVars>>]_vars

\* the bindings a message can meet: at most one row for chat1 and at most one
\* wildcard row, both of the Feishu app A
InboundBindingSets ==
    LET specific == [id : {"b1"}, channel_type : {"feishu"}, external_id : {"chat1"},
                     enabled : BOOLEAN, app_id : {"A"}, app_secret : {RealSecret},
                     trigger_pattern : TriggerPatterns, agent_id : AgentIds]
        global == [id : {"b2"}, channel_type : {"feishu"}, external_id : {Wildcard},
                   enabled : BOOLEAN, app_id : {"A"}, app_secret : {RealSecret},
                   trigger_pattern : {NoneV}, agent_id : Presets]
    IN {s1 \cup s2 : s1 \in {{}} \cup {{b} : b \in specific},
                     s2 \in {{}} \cup {{b} : b \in global}}

\* the leader after ChannelManager.start(): one connected adapter per key of
\* an enabled binding
InboundChanInit ==
    /\ bindings \in InboundBindingSets
    /\ is_leader = [w \in Workers |-> w = LeaderWorker]
    /\ adapters = [w \in Workers |->
                      IF w = LeaderWorker
                         THEN [k \in DOMAIN ExpectedStatus(bindings) |-> Connected]
                         ELSE EmptyDict]
    /\ leaked = [w \in Workers |-> {}]
    /\ response = NoResponse

InboundNext ==
    \/ \E msg \in InboundMessages : _handle_inbound(msg) /\ UNCHANGED chanVars
    \/ \E ctx \in inflight, outcome \in AgentOutcomes : reply(ctx, outcome) /\ UNCHANGED chanVars
    \/ /\ response = NoResponse
       /\ \E key \in AdapterKeys, ok \in BOOLEAN : restart_adapter(LeaderWorker, key, ok)
       /\ UNCHANGED inboundVars
    \/ deliver_response /\ UNCHANGED inboundVars

InitInbound == StreamInit /\ SteerInit /\ OnePoller /\ InboundChanInit /\ SchedInit /\ InboundInit /\ EndpointInit /\ FeishuInit /\ ExtraInit
SpecInbound == InitInbound /\ [][InboundNext /\ UNCHANGED <<streamVars, steerVars, schedVars, endpointVars, feishuVars, extraVars>>]_vars

\* the text of the next steer request: a new one after every steering file
NextText == Texts[TotalWrites + 1]

\* steer requests on both workers, while the run of r1 closes its stream and ends
EndpointNext ==
    \/ \E w \in Writers, r \in Runs : steer(w, r, NextText)
    \/ \E w \in Writers : steer_return(w)
    \/ \E r \in Runs : trace_completed(r)
    \/ \E w \in Writers : (WriteChunk(w) \/ WriteRename(w)) /\ UNCHANGED endpointVars
    \/ \E p \in Pollers : SteerClose(p) /\ UNCHANGED endpointVars

SpecEndpoint == InitSteer /\ [][EndpointNext /\ UNCHANGED <<chanVars, schedVars, inboundVars, feishuVars, extraVars>>]_vars


\* the steps a thread takes by itself once the scheduler runs it
ws_thread_step(t) ==
    /\ ws_while(t) \/ ws_check(t) \/ ws_wake(t)
    /\ UNCHANGED <<streamVars, steerVars, chanVars, schedVars, inboundVars, endpointVars, extraVars>>

FeishuNext ==
    \/ connect
    \/ disconnect
    \/ \E t \in ThreadIds : ws_while(t)
    \/ \E t \in ThreadIds, how \in {"returned", "raised"} : ws_client_ends(t, how)
    \/ \E t \in ThreadIds : ws_check(t)
    \/ \E t \in ThreadIds : ws_wake(t)

\* the operating system runs every thread that is ready and every sleep
\* returns; nothing makes a connected client return
SpecFeishu ==
    /\ InitSteer
    /\ [][FeishuNext /\ UNCHANGED <<streamVars, steerVars, chanVars, schedVars,
                                     inboundVars, endpointVars, extraVars>>]_vars
    /\ \A t \in ThreadIds : WF_vars(ws_thread_step(t))

DedupNext == \E msg_id \in MessageIds, kind \in EventKinds : _on_message(msg_id, kind)

SpecDedup ==
    InitSteer /\ [][DedupNext /\ UNCHANGED <<streamVars, steerVars, chanVars, schedVars,
                                              inboundVars, endpointVars, feishuVars, sessionVars, pipelineVars, sharedVars, execVars, lifecycleVars>>]_vars

SessionNext ==
    \/ \E s \in Savers, args \in SaveArgs(saves + 1) : save_session_messages(s, args)
    \/ \E s \in Savers, ok \in BOOLEAN : save_session_update(s, ok)
    \/ \E ok \in BOOLEAN : save_session_checkpoint(Context("checkpoint", saves + 1), ok)

SpecSession ==
    InitSteer /\ [][SessionNext /\ UNCHANGED <<streamVars, steerVars, chanVars, schedVars,
            inboundVars, endpointVars, feishuVars, dedupVars, pipelineVars, sharedVars, execVars, lifecycleVars>>]_vars

PipelineNext ==
    \/ \E h \in Handlers, chat \in ChatIds, found \in BOOLEAN : handle_commit(h, chat, found)
    \/ \E h \in Handlers : agent_invoke(h)
    \/ \E h \in Handlers, res \in RunResults : agent_return(h, res)
    \/ \E h \in Handlers : save_context(h)
    \/ \E h \in Handlers, ok \in BOOLEAN : record_outbound(h, ok)
    \/ \E h \in Handlers, ready \in BOOLEAN : send_message(h, ready)

SpecPipeline ==
    InitSteer /\ [][PipelineNext /\ UNCHANGED <<streamVars, steerVars, chanVars, schedVars,
            inboundVars, endpointVars, feishuVars, dedupVars, sessionVars, sharedVars, execVars, lifecycleVars>>]_vars

\* the tasks whose dispatches the workers race for: a valid schedule of each type
SharedNext ==
    \/ /\ \E ty \in ScheduleTypes, v \in ScheduleValues, m \in MaxRunsInputs :
             /\ validate_schedule(ty, v)
             /\ create_scheduled_task("n1", ty, v, m, TRUE)
       /\ UNCHANGED sharedVars
    \/ deliver_sched_response /\ UNCHANGED sharedVars
    \/ Tick /\ UNCHANGED sharedVars
    \/ \E w \in SchedWorkers : poll_select(w)
    \/ \E w \in SchedWorkers : poll_commit(w)
    \/ \E id \in TaskIds : run_now_select(id)
    \/ run_now_commit

SpecSchedShared ==
    InitSched /\ [][SharedNext /\ UNCHANGED <<streamVars, steerVars, chanVars, inboundVars,
            endpointVars, feishuVars, dedupVars, sessionVars, pipelineVars, execVars, lifecycleVars>>]_vars

\* the scheduler with executions that forward their result: tasks without
\* max_runs are created, run by hand and deleted, the poller dispatches
SchedFinalizeRequest ==
    \/ \E ty \in ScheduleTypes, v \in ScheduleValues :
           /\ validate_schedule(ty, v)
           /\ create_scheduled_task("n1", ty, v, NoMax, TRUE)
    \/ \E id \in TaskIds : run_task_now(id)
    \/ \E id \in TaskIds : delete_scheduled_task(id)

SchedFinalizeNext ==
    \/ SchedIdle /\ SchedFinalizeRequest /\ UNCHANGED execVars
    \/ SchedIdle /\ sched_start /\ UNCHANGED execVars
    \/ SchedIdle /\ _poll_and_execute /\ UNCHANGED execVars
    \/ (\E args \in to_start : thread_start(args)) /\ UNCHANGED execVars
    \/ deliver_sched_response /\ UNCHANGED execVars
    \/ SchedIdle /\ Tick /\ UNCHANGED execVars
    \/ SchedIdle /\ \E args \in executions, outcome \in ExecutionOutcomes, forwards \in BOOLEAN :
                        execute_run(args, outcome, forwards)
    \/ SchedIdle /\ \E args \in forwarding, ok \in BOOLEAN : forward_result(args, ok)

SpecSchedFinalize ==
    InitSched /\ [][SchedFinalizeNext /\ UNCHANGED <<streamVars, steerVars, chanVars, inboundVars,
            endpointVars, feishuVars, dedupVars, sessionVars, pipelineVars, sharedVars, lifecycleVars>>]_vars

LifecycleNext ==
    \/ start_scheduler
    \/ stop_begin
    \/ stop_end
    \/ \E l \in LoopIds : loop_test(l)
    \/ \E l \in LoopIds : loop_sleep(l)

SpecLifecycle ==
    InitSched /\ [][LifecycleNext /\ UNCHANGED <<streamVars, steerVars, chanVars, inboundVars,
            endpointVars, feishuVars, dedupVars, sessionVars, pipelineVars, sharedVars, execVars>>]_vars

(***************************************************************************)
(* Event Stream properties                                                 *)
(***************************************************************************)
\* the events of the push() calls made before the first close() call, in call order
PushedBeforeClose(s) ==
    LET kept == SelectSeq(push_log[s], LAMBDA c : c.before_close)
    IN [i \in 1..Len(kept) |-> kept[i].event]

\* what the consumer received, heartbeats aside
RealYielded(s) == SelectSeq(yielded[s], LAMBDA e : e # HeartbeatEvent)

\* sentinels the stream has enqueued so far: those still queued, and the one that ended the iteration
Sentinels(s) ==
    Len(SelectSeq(queue[s], LAMBDA e : e = NoneEvent)) + (IF iter_done[s] THEN 1 ELSE 0)

\* C1: whatever the interleaving of push, inject and close, the consumer receives
\* (heartbeats aside) a prefix of the events pushed before close(), in push order;
\* when its iteration has ended it has received all of them and nothing pushed
\* later; and however often close() is called the stream carries one sentinel
\* only, so that the iteration ends once.
C1_PushOrderUntilClose ==
    \A s \in StreamIds :
        /\ IsPrefix(RealYielded(s), PushedBeforeClose(s))
        /\ iter_done[s] => (close_calls[s] > 0 /\ RealYielded(s) = PushedBeforeClose(s))
        /\ Sentinels(s) = (IF close_calls[s] > 0 THEN 1 ELSE 0)

\* C1 witness: two events pushed, close() called twice, one push dropped after
\* close, injections and a heartbeat in between, iteration ended
C1_Witness ==
    /\ iter_done[TheStream]
    /\ close_calls[TheStream] = 2
    /\ Len(PushedBeforeClose(TheStream)) = 2
    /\ Len(push_log[TheStream]) = 3
    /\ inject_log[TheStream] # <<>>
    /\ HeartbeatsOf(yielded[TheStream]) > 0

(***************************************************************************)
(* Steering Transport properties                                           *)
(***************************************************************************)
\* every write has finished and the poller has nothing left to do for its run
Drained(p) ==
    /\ \A w \in Writers : w_pc[w] = "idle"
    /\ GlobMsg(p_run[p]) = {}
    /\ p_pc[p] \in {"loop", "done"}

\* C2: when the messages of a run were submitted one after another and one
\* poller drains the run's directory, the texts injected so far are a prefix of
\* the submitted texts, in submission order, and once no .msg file of the run
\* is left the stream has received exactly the submitted texts, each once.
C2_DrainInWriteOrder ==
    (OnePoller /\ ~overlapped["r1"]) =>
        /\ IsPrefix(inject_log["s1"], submit_log["r1"])
        /\ Drained("p1") => inject_log["s1"] = submit_log["r1"]

\* C2 witness: two messages submitted in sequence by different workers, both
\* injected, no file left
C2_Witness ==
    /\ OnePoller /\ ~overlapped["r1"]
    /\ Len(submit_log["r1"]) = 2
    /\ Drained("p1")
    /\ inject_log["s1"] = submit_log["r1"]
    /\ clock > 2

\* C3: a poller reads only published (.msg) files, and every text it reads and
\* injects is the complete text of a message submitted for its run.
C3_NoPartialRead ==
    /\ \A rd \in reads :
          /\ rd.ext = "msg"
          /\ rd.content \in Range(submit_log[rd.run])
    /\ \A p \in Pollers : p_run[p] # NoRun =>
          \A i \in 1..Len(inject_log[PollStream[p]]) :
              inject_log[PollStream[p]][i] \in Range(submit_log[p_run[p]])

\* C3 witness: the poller has just read a message while a writer is half way
\* through the temporary file of another message of the same run
C3_Witness ==
    /\ p_pc["p1"] = "unlink"
    /\ \E f \in files : f.run = "r1" /\ f.ext = "tmp" /\ Len(f.content) = 1

\* C4: every published steering file is injected exactly once in total, by
\* whichever poller sees it first (stated as: no file has a second delivery).
C4_ConsumedOnce == \A d \in deliveries : d.k = 1

\* C4: the same, for a single poller per run directory
C4_ConsumedOnceSinglePoller == OnePoller => \A d \in deliveries : d.k = 1

(***************************************************************************)
(* Channel Manager properties                                              *)
(***************************************************************************)
\* the request just answered ran a binding hook (create, update or delete committed)
HookRan(ops) == response'.op \in ops /\ response'.status = 200

\* C5: in a step in which on_binding_updated or on_binding_deleted runs, the
\* adapter of an app_id that an enabled Feishu binding still references stays
\* registered and untouched; an adapter leaves the registry only when no
\* enabled binding of its app_id remains.
C5_SharedAdapterKept ==
    [][HookRan({"update", "delete"}) =>
         \A w \in Workers, a \in AppIds :
             FeishuKey(a) \in DOMAIN adapters[w] =>
                 IF RemainingEnabled(bindings', a) > 0
                    THEN /\ FeishuKey(a) \in DOMAIN adapters'[w]
                         /\ adapters'[w][FeishuKey(a)] = adapters[w][FeishuKey(a)]
                    ELSE TRUE]_vars

\* C5 witness: the leader has deleted a binding of app A, another enabled
\* binding still references A, and the adapter of A is registered and connected
C5_Witness ==
    /\ response.op = "delete" /\ response.status = 200
    /\ response.worker = LeaderWorker /\ is_leader[LeaderWorker]
    /\ response.key = "feishu:A"
    /\ RemainingEnabled(bindings, "A") = 1
    /\ "feishu:A" \in DOMAIN adapters[LeaderWorker]
    /\ adapters[LeaderWorker]["feishu:A"].connected

\* C6: the registry maps each adapter key (feishu:{app_id}, or the channel
\* type) to one adapter object and distinct app_ids have distinct keys; a
\* start, create, update or delete step that finds a key registered constructs
\* no further object of that key and calls no connect() on it: the registered
\* object is left as it was and no unregistered object of the key appears.
C6_OneAdapterPerKey ==
    /\ [](\A w \in Workers :
            /\ DOMAIN adapters[w] \subseteq {"telegram"} \cup {FeishuKey(a) : a \in AppIds}
            /\ \A a, b \in AppIds : FeishuKey(a) = FeishuKey(b) => a = b)
    /\ [][\A w \in Workers : \A k \in DOMAIN adapters[w] :
              response'.op \in {"start", "create", "update", "delete"} =>
                  /\ k \in DOMAIN adapters'[w] => adapters'[w][k] = adapters[w][k]
                  /\ k \in leaked'[w] => k \in leaked[w]]_vars

\* C6 witness: the leader has created a second binding of app A while the
\* adapter of A was registered (it is still the disconnected object a failed
\* restart left), and the two bindings share that one object
C6_Witness ==
    /\ response.op = "create" /\ response.status = 200
    /\ response.worker = LeaderWorker /\ is_leader[LeaderWorker]
    /\ response.key = "feishu:A"
    /\ Cardinality({b \in bindings : b.enabled /\ b.app_id = "A" /\ b.app_secret # NoneV}) = 2
    /\ "feishu:A" \in DOMAIN adapters[LeaderWorker]
    /\ ~adapters[LeaderWorker]["feishu:A"].connected

\* C6 witness, second case: distinct app_ids have distinct registered adapters
C6_WitnessDistinct ==
    /\ {"feishu:A", "feishu:B"} \subseteq DOMAIN adapters[LeaderWorker]
    /\ \E b1, b2 \in bindings : b1.app_id = "A" /\ b2.app_id = "B"

\* C7: a manager whose start() was not called has an empty registry and owns no
\* adapter object, and a binding request it answers changes no adapter anywhere.
C7_FollowerOwnsNothing ==
    /\ [](\A w \in Workers : ~is_leader[w] => adapters[w] = EmptyDict /\ leaked[w] = {})
    /\ [][(HookRan({"create", "update", "delete"}) /\ ~is_leader[response'.worker])
             => UNCHANGED <<adapters, leaked>>]_vars

\* C7 witness: the follower has answered the creation of a Feishu binding with
\* both credentials while another worker is leader; its registry is empty
C7_Witness ==
    /\ response.op = "create" /\ response.status = 200
    /\ response.worker = "w2" /\ ~is_leader["w2"] /\ is_leader[LeaderWorker]
    /\ response.key = "feishu:B"
    /\ \E b \in bindings : b.enabled /\ b.app_id = "B" /\ b.app_secret # NoneV
    /\ adapters["w2"] = EmptyDict
    /\ "feishu:B" \notin DOMAIN adapters[LeaderWorker]

\* adapter keys of the enabled bindings
EnabledKeys == {adapter_key_for_binding(b) : b \in {x \in bindings : x.enabled}} \ {NoneV}

\* C8: a follower answers a status request with exactly the adapter keys of
\* the enabled bindings, each connected, and a restart of a key it does not
\* hold with 202; the leader answers a status request with is_connected() of
\* each registered adapter and a restart of an unknown key with 404; a restart
\* answered 202 or 404 changes no adapter.
C8_StatusAndRestartAnywhere ==
    /\ [](response.op = "status" =>
            /\ response.status = 200
            /\ IF is_leader[response.worker]
                  THEN response.body = [k \in DOMAIN adapters[response.worker] |->
                                           adapters[response.worker][k].connected]
                  ELSE /\ DOMAIN response.body = EnabledKeys
                       /\ \A k \in DOMAIN response.body : response.body[k] = TRUE)
    /\ [](response.op = "restart" =>
            IF response.key \in DOMAIN adapters[response.worker]
               THEN response.status = 200
               ELSE response.status = (IF is_leader[response.worker] THEN 404 ELSE 202))
    /\ [][(response'.op = "restart" /\ response'.status \in {202, 404})
             => UNCHANGED <<bindings, adapters, leaked>>]_vars

\* C8 witness: a follower reports the adapter of A connected, from the enabled
\* binding, while the leader's registered adapter of A is disconnected
C8_Witness ==
    /\ response.op = "status" /\ response.worker = "w2" /\ ~is_leader["w2"]
    /\ "feishu:A" \in DOMAIN response.body
    /\ is_leader[LeaderWorker]
    /\ "feishu:A" \in DOMAIN adapters[LeaderWorker]
    /\ ~adapters[LeaderWorker]["feishu:A"].connected

\* C8 witness, restart: a follower acknowledges a restart it cannot perform
C8_WitnessRestart ==
    /\ response.op = "restart" /\ response.status = 202 /\ response.worker = "w2"
    /\ response.key \in DOMAIN adapters[LeaderWorker]

(***************************************************************************)
(* Task Scheduler properties                                               *)
(***************************************************************************)
\* C9: the poller dispatch that brings run_count of a task with max_runs = k
\* to k sets its status to completed; a completed task is not among the tasks
\* the poller selects, whatever its next_run; and no step (pause, resume,
\* update, run-now, poll) gives a completed task another status: it stays
\* completed until it is deleted.
C9_CompletedIsFinal ==
    /\ [][_poll_and_execute =>
            \A id \in DueTasks :
                (tasks[id].max_runs # NoMax /\ tasks[id].run_count + 1 = tasks[id].max_runs)
                    => tasks'[id].status = "completed"]_vars
    /\ [](\A id \in TaskIds : tasks[id].status = "completed" => id \notin DueTasks)
    /\ [][\A id \in TaskIds :
            tasks[id].status = "completed" => tasks'[id].status \in {"completed", "deleted"}]_vars

\* C9 witness: an interval task with max_runs = 2 was completed by its second
\* dispatch (at time 20, after the first at time 10) while the scheduler runs
C9_Witness ==
    \E id \in TaskIds :
        /\ tasks[id].status = "completed"
        /\ tasks[id].max_runs = 2 /\ tasks[id].run_count = 2
        /\ tasks[id].schedule_type = "interval"
        /\ tasks[id].last_run = 20
        /\ Cardinality({l \in DOMAIN run_logs : run_logs[l].task_id = id}) = 2
        /\ sched_running

\* C9 witness, past due: the next_run of a completed task has passed while the
\* scheduler is running
C9_WitnessPastDue ==
    \E id \in TaskIds :
        /\ tasks[id].status = "completed"
        /\ tasks[id].max_runs = 1 /\ tasks[id].run_count = 1
        /\ tasks[id].next_run # NoTime /\ tasks[id].next_run <= now
        /\ sched_running

\* C9 witness, run-now: a task completed by max_runs = 1 was run again by
\* run-now and is still completed
C9_WitnessRunNow ==
    \E id \in TaskIds :
        /\ tasks[id].status = "completed"
        /\ tasks[id].max_runs = 1 /\ tasks[id].run_count = 2

\* C10: an interval task of N seconds is created with next_run = now + N, and
\* a poller dispatch at poll time now sets its next_run to now + N and its
\* last_run to now and adds exactly 1 to its run_count.
C10_IntervalAdvance ==
    /\ [][\A id \in TaskIds :
            (tasks[id] = NoTask /\ tasks'[id].status = "active"
                 /\ tasks'[id].schedule_type = "interval")
                => tasks'[id].next_run = now + tasks'[id].schedule_value.n]_vars
    /\ [][_poll_and_execute =>
            \A id \in DueTasks :
                tasks[id].schedule_type = "interval" =>
                    /\ tasks'[id].next_run = now + tasks[id].schedule_value.n
                    /\ tasks'[id].last_run = now
                    /\ tasks'[id].run_count = tasks[id].run_count + 1]_vars

\* C10 witness: an interval task of 10 seconds was dispatched once, late, by
\* the poll at time 20 (only a poll completes a task), and is next due at 30
C10_Witness ==
    \E id \in TaskIds :
        /\ tasks[id].status = "completed" /\ tasks[id].max_runs = 1
        /\ tasks[id].schedule_type = "interval" /\ tasks[id].schedule_value.n = 10
        /\ tasks[id].run_count = 1
        /\ tasks[id].last_run = 20 /\ tasks[id].next_run = 30
        /\ \E l \in DOMAIN run_logs : run_logs[l].task_id = id /\ run_logs[l].started_at = 20

\* the step in which the handler of request op answers
Answers(op) == sched_response = NoSchedResponse /\ sched_response'.op = op

\* the run log rows a step adds for task id
NewLogs(id) == {l \in DOMAIN run_logs' \ DOMAIN run_logs : run_logs'[l].task_id = id}

\* C11: a paused task is not among the tasks the poller selects, whatever its
\* next_run, and a step that adds a run log for a paused task leaves its status
\* and next_run alone (it is no dispatch of the poller); pause answers 200 only
\* for an active task, which becomes paused, and resume only for a paused task,
\* which becomes active with next_run recomputed from now; for any other
\* status they answer 400 and the task is unchanged.
C11_PauseResume ==
    /\ [](\A id \in TaskIds : tasks[id].status = "paused" => id \notin DueTasks)
    /\ [][\A id \in TaskIds :
            (tasks[id].status = "paused" /\ NewLogs(id) # {})
                => /\ tasks'[id].status = "paused"
                   /\ tasks'[id].next_run = tasks[id].next_run]_vars
    /\ [][Answers("pause") =>
            LET id == sched_response'.id
            IN IF sched_response'.status = 200
                  THEN /\ tasks[id].status = "active"
                       /\ tasks' = [tasks EXCEPT ![id].status = "paused"]
                  ELSE /\ tasks[id].status # "active"
                       /\ UNCHANGED <<tasks, run_logs>>
                       /\ sched_response'.status = (IF Exists(id) THEN 400 ELSE 404)]_vars
    /\ [][Answers("resume") =>
            LET id == sched_response'.id
            IN IF sched_response'.status = 200
                  THEN /\ tasks[id].status = "paused"
                       /\ tasks'[id].status = "active"
                       /\ tasks'[id].schedule_type = "interval"
                              => tasks'[id].next_run = now + tasks[id].schedule_value.n
                       /\ tasks'[id].schedule_type = "cron"
                              => /\ tasks'[id].next_run > now
                                 /\ tasks'[id].next_run <= now + tasks[id].schedule_value.n
                       /\ tasks'[id].schedule_type = "once"
                              => tasks'[id].next_run =
                                     (IF tasks[id].schedule_value.n > now
                                         THEN tasks[id].schedule_value.n ELSE NoTime)
                       /\ tasks' = [tasks EXCEPT ![id].status = "active",
                                                 ![id].next_run = tasks'[id].next_run]
                  ELSE /\ tasks[id].status # "paused"
                       /\ UNCHANGED <<tasks, run_logs>>
                       /\ sched_response'.status = (IF Exists(id) THEN 400 ELSE 404)]_vars

\* C11 witness: the next_run of a paused task has passed while the scheduler is
\* running, the task has not run, and a second pause of it was answered 400
C11_Witness ==
    \E id \in TaskIds :
        /\ tasks[id].status = "paused"
        /\ tasks[id].next_run # NoTime /\ tasks[id].next_run < now
        /\ tasks[id].run_count = 0
        /\ sched_running
        /\ sched_response = SchedAnswer("pause", id, 400)

\* C11 witness, resume: a paused interval task was resumed after its next_run
\* had passed, and its next_run is one interval after now
C11_WitnessResume ==
    \E id \in TaskIds :
        /\ sched_response = SchedAnswer("resume", id, 200)
        /\ tasks[id].status = "active"
        /\ tasks[id].schedule_type = "interval"
        /\ now = 20 /\ tasks[id].next_run = 30

\* C12: in every reachable state a task whose run_count has reached its
\* max_runs (when max_runs is set) has status completed, and the poller
\* dispatch in which a once schedule fires sets the task completed.
C12_MaxRunsReachedIsCompleted ==
    /\ [](\A id \in TaskIds :
            (Exists(id) /\ tasks[id].max_runs # NoMax
                 /\ tasks[id].run_count >= tasks[id].max_runs)
                => tasks[id].status = "completed")
    /\ [][_poll_and_execute =>
            \A id \in DueTasks :
                tasks[id].schedule_type = "once" => tasks'[id].status = "completed"]_vars

\* C13: a run-now on an existing task, whatever its status, adds exactly one
\* run log row with status running and hands exactly one execution to a
\* thread, and leaves the task's next_run and status as they were; a run-now
\* on a missing task is answered 404 and adds no row and no execution.
C13_RunNow ==
    /\ [][\A id \in TaskIds :
            (Answers("run_now") /\ sched_response'.id = id) =>
                IF Exists(id)
                   THEN /\ sched_response'.status = 200
                        /\ DOMAIN run_logs' = DOMAIN run_logs \cup {log_seq'}
                        /\ log_seq' \notin DOMAIN run_logs
                        /\ run_logs'[log_seq'] =
                              [task_id |-> id, started_at |-> now, status |-> "running",
                               error |-> NoneV]
                        /\ \A l \in DOMAIN run_logs : run_logs'[l] = run_logs[l]
                        /\ to_start' = {ThreadArgs(id, log_seq')}
                        /\ executions' = executions
                        /\ tasks'[id].next_run = tasks[id].next_run
                        /\ tasks'[id].status = tasks[id].status
                   ELSE /\ sched_response'.status = 404
                        /\ UNCHANGED <<tasks, run_logs, log_seq, to_start, executions>>]_vars
    /\ [][(sched_response.op = "run_now" /\ to_start # {}) =>
            /\ to_start' = {}
            /\ \E args \in to_start : executions' = executions \cup {args}
            /\ Cardinality(executions') = Cardinality(executions) + 1
            /\ UNCHANGED <<tasks, run_logs>>]_vars

C13_Witness ==
    /\ sched_response = SchedAnswer("run_now", "t1", 200)
    /\ Exists("t1")
    /\ tasks["t1"].status = "paused"
    /\ tasks["t1"].next_run < now
    /\ to_start = {}
    /\ \E e \in executions : e.task_id = "t1" /\ run_logs[e.run_log_id].status = "running"

C13_WitnessMissing ==
    /\ sched_response = SchedAnswer("run_now", "t1", 404)
    /\ tasks["t1"] = DeletedTask

\* the row of a dispatch is committed: it exists, belongs to the task, is
\* running, and the task carries the dispatch's last_run and run_count
Committed(args) ==
    /\ args.run_log_id \in DOMAIN run_logs
    /\ run_logs[args.run_log_id].task_id = args.task_id
    /\ run_logs[args.run_log_id].status = "running"
    /\ Exists(args.task_id)
    /\ tasks[args.task_id].last_run = run_logs[args.run_log_id].started_at
    /\ tasks[args.task_id].run_count >= 1

\* C14 as stated: at every moment each started execution has its own run log
\* row.
C14_EveryExecutionHasRow ==
    \A e \in executions :
        /\ e.run_log_id \in DOMAIN run_logs
        /\ run_logs[e.run_log_id].task_id = e.task_id

\* C14 amended: every dispatch of the poller or of run-now is committed (the
\* task's next_run, last_run, run_count and status updated, a running row
\* written) before its thread starts, threads start only for committed
\* dispatches, no two executions share a row, and each started execution
\* whose task has not been deleted has its own run log row.
C14_CommittedBeforeStart ==
    /\ [](\A args \in to_start : Committed(args))
    /\ [](\A e \in executions :
            Exists(e.task_id) =>
                /\ e.run_log_id \in DOMAIN run_logs
                /\ run_logs[e.run_log_id].task_id = e.task_id)
    /\ [](\A e1, e2 \in executions \cup to_start :
            e1.run_log_id = e2.run_log_id => e1 = e2)
    /\ [][/\ executions' \subseteq executions \cup to_start
          /\ \A e \in executions' \ executions : Committed(e)]_vars
    /\ [][_poll_and_execute =>
            \A id \in DueTasks :
                /\ \E args \in to_start' : args.task_id = id /\ args.run_log_id > log_seq
                /\ tasks'[id].last_run = now
                /\ tasks'[id].run_count = tasks[id].run_count + 1
                /\ tasks'[id].next_run =
                      _calculate_next_run(tasks[id].schedule_type,
                                          tasks[id].schedule_value, now)
                /\ tasks'[id].status \in {tasks[id].status, "completed"}]_vars

C14_Witness ==
    /\ sched_response = NoSchedResponse
    /\ Cardinality(executions) = 2
    /\ \A e \in executions : Committed(e)

C14_WitnessDeleted ==
    /\ tasks["t1"] = DeletedTask
    /\ executions # {}

\* an invalid schedule descriptor: an unknown type, an invalid cron expression,
\* an interval that is not an integer or is below 10 seconds, or a once
\* timestamp that does not parse
InvalidDescriptor(ty, v) ==
    \/ ty \notin {"cron", "interval", "once"}
    \/ ty = "cron" /\ v.fmt # "cron"
    \/ ty = "interval" /\ (v.fmt # "int" \/ v.n < 10)
    \/ ty = "once" /\ v.fmt # "iso"

\* the answer to a rejected request: an error status and nothing persisted
Rejected ==
    /\ sched_response'.status \in {400, 422}
    /\ UNCHANGED <<tasks, run_logs, log_seq, to_start, executions>>

\* C15: a create or an update whose schedule descriptor is invalid can only be
\* answered with an error, changing no task and no run log; no stored task
\* ever has an invalid descriptor.
C15_InvalidScheduleRejected ==
    /\ [](\A id \in TaskIds :
            Exists(id) =>
                ~InvalidDescriptor(tasks[id].schedule_type, tasks[id].schedule_value))
    /\ [](SchedIdle =>
            \A name \in TaskNames, ty \in ScheduleTypeInputs, v \in ScheduleValues,
               m \in MaxRunsInputs, agent_found \in BOOLEAN :
                InvalidDescriptor(ty, v) =>
                    ~ENABLED (create_scheduled_task(name, ty, v, m, agent_found)
                                  /\ ~Rejected))
    /\ [](SchedIdle =>
            \A id \in TaskIds, update_fields \in UpdateRequests :
                (/\ Exists(id)
                 /\ DOMAIN update_fields \cap {"schedule_type", "schedule_value"} # {}
                 /\ InvalidDescriptor(
                        Field(update_fields, "schedule_type", tasks[id].schedule_type),
                        Field(update_fields, "schedule_value", tasks[id].schedule_value))) =>
                    ~ENABLED (update_scheduled_task(id, update_fields) /\ ~Rejected))
    /\ [][((Answers("create") \/ Answers("update"))
               /\ sched_response'.status \in {400, 422}) =>
            UNCHANGED <<tasks, run_logs, log_seq, to_start, executions>>]_vars

C15_Witness ==
    /\ sched_response = SchedAnswer("update", "t1", 400)
    /\ Exists("t1")
    /\ tasks["t1"].schedule_type = "interval"

C15_WitnessUnknownType ==
    /\ sched_response = SchedAnswer("create", "t1", 422)
    /\ tasks["t1"] = NoTask

\* the answer to a duplicate create: a conflict, no row added, no adapter
\* started or stopped
Conflict ==
    /\ response'.status = 409
    /\ UNCHANGED <<bindings, adapters, leaked>>

\* C16: no two bindings ever share (channel_type, external_id); a create for
\* a pair that is already bound can only be answered with a conflict, adding
\* no row and starting no adapter.
C16_UniquePair ==
    /\ [](\A b1, b2 \in bindings :
            (b1.channel_type = b2.channel_type /\ b1.external_id = b2.external_id)
                => b1 = b2)
    /\ [](response = NoResponse =>
            \A b \in bindings, w \in Workers, cfg \in CreateConfigs, ok \in BOOLEAN :
                ~ENABLED (create_channel_binding(w, b.channel_type, b.external_id,
                                                 cfg[1], cfg[2], ok)
                              /\ ~Conflict))
    /\ [][(response = NoResponse /\ response'.op = "create" /\ response'.status = 409)
              => UNCHANGED <<bindings, adapters, leaked>>]_vars

C16_Witness ==
    /\ response.op = "create" /\ response.status = 409
    /\ Cardinality(bindings) = 2
    /\ \E b \in bindings : ~b.enabled
    /\ \E w \in Workers : DOMAIN adapters[w] # {}

(***************************************************************************)
(* Inbound message properties                                              *)
(***************************************************************************)
\* the enabled binding of exactly the message's channel type and chat id
ExactBinding(msg) ==
    {b \in bindings : /\ b.enabled
                      /\ b.channel_type = msg.channel_type
                      /\ b.external_id = msg.external_id}

\* the enabled wildcard binding of the message's channel type
WildcardBinding(msg) ==
    {b \in bindings : /\ b.enabled
                      /\ b.channel_type = msg.channel_type
                      /\ b.external_id = Wildcard}

\* the message passed routing, trigger check and preset lookup for binding b
ProcessedBy(b, msg) ==
    /\ channel_messages' = Append(channel_messages, ChannelMessage(b, "inbound", msg.content))
    /\ \E ctx \in inflight' \ inflight : ctx.binding = b /\ ctx.msg = msg

\* C17: a message is routed to the enabled binding of exactly its channel
\* type and chat id; when there is none it is routed to the enabled wildcard
\* binding, and a specific binding wins over the wildcard for its chat id.
C17_WildcardFallback ==
    [][\A msg \in InboundMessages :
          _handle_inbound(msg) =>
              LET target == IF ExactBinding(msg) # {} THEN ExactBinding(msg)
                            ELSE WildcardBinding(msg)
              IN \A b \in target :
                    (b.trigger_pattern = NoneV /\ b.agent_id \in Presets)
                        => ProcessedBy(b, msg)]_vars

\* nothing of a message is kept: no record, no session, no agent run, no reply
DroppedSilently ==
    UNCHANGED <<channel_messages, pub_sessions, agent_runs, inflight, sent>>

\* C18: a message for which there is no matching enabled binding is dropped
\* silently: it leaves no channel message record, no session, no agent run
\* and nothing is sent.
C18_NoBindingDropped ==
    [][\A msg \in InboundMessages :
          (/\ _handle_inbound(msg)
           /\ ExactBinding(msg) = {}
           /\ WildcardBinding(msg) = {}) => DroppedSilently]_vars

C18_Witness ==
    /\ Len(received) = 1
    /\ \E b \in bindings : /\ ~b.enabled
                            /\ b.channel_type = received[1].channel_type
                            /\ b.external_id = received[1].external_id
                            /\ b.trigger_pattern = NoneV
                            /\ b.agent_id \in Presets
    /\ \A b \in bindings : b.external_id # Wildcard
    /\ channel_messages = << >> /\ pub_sessions = {} /\ agent_runs = {} /\ sent = << >>

\* the case in which the trigger check drops a message: the binding has a
\* pattern, the message has no media, and the pattern evaluates without a
\* regex error and does not match the text
TriggerRejects(b, msg) ==
    /\ b.trigger_pattern # NoneV
    /\ ~msg.media
    /\ ReSearch(b.trigger_pattern, msg.content) # "error"
    /\ ReSearch(b.trigger_pattern, msg.content) # "match"

C19_WitnessMedia ==
    \E ctx \in inflight :
        /\ ctx.msg.media
        /\ ctx.binding.trigger_pattern = "^hi"
        /\ ctx.msg.content = "bye"

C19_WitnessRegexError ==
    \E ctx \in inflight :
        /\ ~ctx.msg.media
        /\ ReSearch(ctx.binding.trigger_pattern, ctx.msg.content) = "error"

\* an agent invocation that raises
Raised == [raised |-> TRUE, answer |-> NoneV, files |-> FALSE]

\* the reply call that carries the error text to the chat the message came from
ErrorReply(ctx) ==
    [seq |-> ctx.seq, key |-> adapter_key_for_binding(ctx.binding),
     external_id |-> ctx.msg.external_id, content |-> ErrorText]

\* the handler of ctx ends with the error text recorded as outbound message
ErrorRecorded(ctx) ==
    /\ channel_messages' =
          Append(channel_messages, ChannelMessage(ctx.binding, "outbound", ErrorText))
    /\ ctx \notin inflight'

C20_WitnessNotConnected ==
    /\ Len(channel_messages) = 2
    /\ channel_messages[2].content = ErrorText
    /\ sent = << >>

(***************************************************************************)
(* Task Scheduler properties: executions                                   *)
(***************************************************************************)
\* C21: an execution that finds the task's agent preset gone finalizes its
\* run log as failed with an error text and changes no task: status,
\* next_run and run_count stay, so an active task is selected again when its
\* next_run is due.
C21_PresetMissingFailsRun ==
    /\ [][\A args \in executions :
            _execute_task(args, "no_preset") =>
                /\ UNCHANGED tasks
                /\ args.run_log_id \in DOMAIN run_logs =>
                      /\ run_logs'[args.run_log_id].status = "failed"
                      /\ run_logs'[args.run_log_id].error = "Agent preset not found"
                      /\ run_logs'[args.run_log_id].task_id = args.task_id
                /\ \A l \in DOMAIN run_logs \ {args.run_log_id} : run_logs'[l] = run_logs[l]]_vars
    /\ [](\A l \in DOMAIN run_logs :
            LET id == run_logs[l].task_id
            IN (/\ run_logs[l].error = "Agent preset not found"
                /\ tasks[id].status = "active"
                /\ tasks[id].next_run # NoTime
                /\ tasks[id].next_run <= now) => id \in DueTasks)

C21_Witness ==
    /\ DOMAIN run_logs = {1, 2}
    /\ run_logs[1].status = "failed" /\ run_logs[1].error = "Agent preset not found"
    /\ run_logs[1].started_at = 10
    /\ run_logs[2].started_at = 20 /\ run_logs[2].status = "running"
    /\ tasks["t1"].status = "active"
    /\ tasks["t1"].run_count = 2
    /\ tasks["t1"].next_run = 30

(***************************************************************************)
(* Event Stream properties: injections and heartbeats                      *)
(***************************************************************************)
\* a call of get_injection_nowait() that returns a text
TakesText(s) == taken_log'[s] # taken_log[s]

\* a call of get_injection_nowait() that returns None for the first time
TakesNone(s) == ~empty_take[s] /\ empty_take'[s]

\* C22: inject is accepted in every state, also after close(); the texts
\* get_injection_nowait() returns are the injected texts in inject order,
\* each once; it returns None exactly when nothing is pending;
\* has_injection() is true exactly when an injected text has not been taken;
\* push and close leave the pending injections alone.
C22_InjectionsFifo ==
    /\ [](\A s \in StreamIds :
            /\ IsPrefix(taken_log[s], inject_log[s])
            /\ has_injection(s) <=> Len(taken_log[s]) < Len(inject_log[s])
            /\ injection_queue[s] =
                  SubSeq(inject_log[s], Len(taken_log[s]) + 1, Len(inject_log[s])))
    /\ [](Len(inject_log[TheStream]) < MaxInject =>
            \A m \in InjectTexts : ENABLED inject(TheStream, m))
    /\ [][\A s \in StreamIds :
            /\ TakesText(s) =>
                  /\ Len(taken_log[s]) < Len(inject_log[s])
                  /\ taken_log'[s] = Append(taken_log[s], inject_log[s][Len(taken_log[s]) + 1])
            /\ TakesNone(s) => Len(taken_log[s]) = Len(inject_log[s])
            /\ get_injection_nowait(s) =>
                  (TakesText(s) <=> Len(taken_log[s]) < Len(inject_log[s]))]_vars
    /\ [][(\E e \in EventTypes : push(TheStream, e)) \/ close(TheStream)
              => UNCHANGED <<injection_queue, inject_log, taken_log, empty_take>>]_vars

\* two texts injected after close(), both taken in order, then a take that found nothing
C22_Witness ==
    /\ closed[TheStream]
    /\ Len(push_log[TheStream]) = 0
    /\ inject_log[TheStream] = <<Texts[2], Texts[1]>>
    /\ taken_log[TheStream] = <<Texts[2], Texts[1]>>
    /\ empty_take[TheStream]
    /\ ~has_injection(TheStream)

\* C23: while the iteration goes on and no event is queued, every heartbeat
\* interval that elapses gives the consumer exactly one heartbeat event
\* instead of blocking it; a heartbeat is yielded only then, never ends the
\* iteration, and never replaces, drops or reorders a pushed event.
C23_Heartbeats ==
    /\ [](\A s \in {TheStream} :
            (~iter_done[s] /\ queue[s] = <<>> /\ HeartbeatsOf(yielded[s]) < MaxHeartbeat)
                => ENABLED aiter_timeout(s))
    /\ [][\A s \in StreamIds :
            aiter_timeout(s) =>
                /\ ~closed[s] /\ queue[s] = <<>>
                /\ yielded'[s] = Append(yielded[s], HeartbeatEvent)
                /\ ~iter_done'[s]
                /\ UNCHANGED <<queue, closed>>]_vars
    /\ [][\A s \in StreamIds :
            yielded'[s] # yielded[s] =>
                /\ Len(yielded'[s]) = Len(yielded[s]) + 1
                /\ SubSeq(yielded'[s], 1, Len(yielded[s])) = yielded[s]
                /\ yielded'[s][Len(yielded'[s])] = HeartbeatEvent <=> queue[s] = <<>>]_vars
    /\ [](\A s \in StreamIds :
            /\ IsPrefix(RealYielded(s), PushedBeforeClose(s))
            /\ iter_done[s] => (closed[s] /\ RealYielded(s) = PushedBeforeClose(s)))

\* heartbeats before, between and after two pushed events, and the iteration
\* still ended by close() with both events received
C23_Witness ==
    /\ iter_done[TheStream]
    /\ HeartbeatsOf(yielded[TheStream]) = 2
    /\ Len(yielded[TheStream]) = 4
    /\ yielded[TheStream][1] = HeartbeatEvent
    /\ yielded[TheStream][3] = HeartbeatEvent
    /\ RealYielded(TheStream) = <<"turn_start", "complete">>

\* the .msg files a step removed from the directory of run r
Deleted(r) == GlobMsg(r) \ GlobMsg(r)'

\* C24: poll_steering_messages terminates once its stream is closed. A poller
\* that stands at its loop test while the stream is closed can only return:
\* it starts no directory scan, and the step injects nothing and deletes
\* nothing, whether or not it had scanned before; a poller that has returned
\* takes no further step; and under a fair event loop every poller of a closed
\* stream does return.
C24_PollerStopsOnClose ==
    /\ [](\A p \in Pollers :
            /\ (closed[PollStream[p]] /\ p_pc[p] = "loop") =>
                   ~ENABLED (PollerStep(p) /\ p_pc'[p] # "done")
            /\ p_pc[p] = "done" => ~ENABLED PollerStep(p))
    /\ [][\A p \in Pollers :
            (closed[PollStream[p]] /\ p_pc[p] = "loop" /\ PollerStep(p)) =>
                /\ p_pc'[p] = "done"
                /\ p_pending'[p] = p_pending[p]
                /\ inject_log' = inject_log
                /\ deliveries' = deliveries
                /\ Deleted(p_run[p]) = {}]_vars
    /\ \A p \in Pollers : closed[PollStream[p]] ~> p_pc[p] = "done"

\* C24 witness: the stream was closed before the poller injected anything; the
\* poller has returned while both published messages of its run are still in
\* the directory, neither injected nor deleted
C24_Witness ==
    /\ closed["s1"] /\ p_pc["p1"] = "done"
    /\ inject_log["s1"] = <<>> /\ deliveries = {} /\ reads = {}
    /\ Cardinality(GlobMsg("r1")) = 2

\* poller p's read of the file at the head of its listing fails although the file exists
FailedRead(p) ==
    /\ PollRead(p, FALSE)
    /\ FileAt(p_run[p], Head(p_pending[p]).name, Head(p_pending[p]).ext) # {}

\* the listing of a tick is in ascending order of file name
Ascending(listing) ==
    \A i, j \in 1..Len(listing) : i < j => NameLess(listing[i].name, listing[j].name)

\* a failed read is swallowed: the poller does not return, it goes on with the
\* rest of the tick's listing, which is in file-name order, and injects
\* nothing; at the end of the tick it is back at its loop test, where it scans
\* again unless the stream is closed
FailureSwallowed ==
    /\ [](\A p \in Pollers :
            /\ Ascending(p_pending[p])
            /\ (p_pc[p] = "loop" /\ p_run[p] # NoRun /\ ~closed[PollStream[p]]) =>
                   ENABLED (PollerStep(p) /\ p_pc'[p] # "done"))
    /\ [][\A p \in Pollers : FailedRead(p) =>
                /\ p_pc'[p] = (IF Tail(p_pending[p]) = <<>> THEN "loop" ELSE "read")
                /\ p_pending'[p] = Tail(p_pending[p])
                /\ inject_log' = inject_log
                /\ deliveries' = deliveries]_vars

\* C25 as stated: a failed read is swallowed and the message is lost, so no
\* later step delivers a message whose read has failed.
C25_FailedMessageLost ==
    /\ FailureSwallowed
    /\ [][\A d \in deliveries' \ deliveries :
            [run |-> d.run, name |-> d.name] \notin read_failed]_vars

\* C25 amended: a failed read is swallowed and the file is left in place: the
\* failing step deletes nothing, and a message whose read has failed is either
\* still a published file of the run's directory, to be read again by the next
\* scan, or has been delivered by a later tick.
C25_FailedMessageKept ==
    /\ FailureSwallowed
    /\ [][\A p \in Pollers : FailedRead(p) => files' = files]_vars
    /\ [](\A x \in read_failed :
            \/ \E g \in GlobMsg(x.run) : g.name = x.name
            \/ \E d \in deliveries : d.run = x.run /\ d.name = x.name)

\* C25 witness: the read of the first of two published messages failed, the
\* second one was forwarded in the same tick, and a later tick delivered the
\* first one after it
C25_Witness ==
    /\ Len(submit_log["r1"]) = 2 /\ ~overlapped["r1"]
    /\ Cardinality(read_failed) = 1
    /\ inject_log["s1"] = <<submit_log["r1"][2], submit_log["r1"][1]>>
    /\ GlobMsg("r1") = {}

\* the files of run r
FilesOf(r) == {f \in files : f.run = r}

\* a step that is a call of cleanup_steering_dir(r)
Cleans(r) ==
    cleanup_steering_dir(r)
        /\ UNCHANGED <<chanVars, schedVars, inboundVars, endpointVars, feishuVars, extraVars>>

\* C26: cleanup_steering_dir(r) removes the directory of r with every file in
\* it, and no later step injects a message it removed; on a run without a
\* directory it changes nothing; it never changes the directory or the files
\* of another run; and every text a poller injects was submitted for the
\* poller's own run, never for another one.
C26_CleanupRemovesOnlyOwnRun ==
    /\ [][\A r \in Runs : Cleans(r) =>
            /\ FilesOf(r)' = {} /\ ~dir_exists'[r]
            /\ ~dir_exists[r] => UNCHANGED vars
            /\ \A o \in Runs \ {r} :
                   FilesOf(o)' = FilesOf(o) /\ dir_exists'[o] = dir_exists[o]
            /\ inject_log' = inject_log]_vars
    /\ [][\A d \in deliveries' \ deliveries :
            [run |-> d.run, name |-> d.name] \notin cleaned]_vars
    /\ [](\A p \in Pollers : \A o \in Runs \ {p_run[p]} :
            \A i \in 1..Len(inject_log[PollStream[p]]) :
                inject_log[PollStream[p]][i] \notin Range(submit_log[o]))

\* C26 witness: a cleanup removed a published message of r1 that the poller
\* of r1 holds in the listing of its tick and has not injected, while a
\* message published for r2 is untouched
C26_Witness ==
    /\ p_pc["p1"] = "read"
    /\ [run |-> "r1", name |-> Head(p_pending["p1"]).name] \in cleaned
    /\ inject_log["s1"] = <<>>
    /\ ~dir_exists["r1"] /\ FilesOf("r1") = {}
    /\ GlobMsg("r2") # {}

\* position of text t in the publish order of run r (0 if it was never published)
PublishedAt(r, t) ==
    IF \E k \in 1..Len(publish_log[r]) : publish_log[r][k].text = t
       THEN CHOOSE k \in 1..Len(publish_log[r]) : publish_log[r][k].text = t
       ELSE 0

\* the names of the published messages of run r ascend in publish order
NamesAscend(r) ==
    \A i, j \in 1..Len(publish_log[r]) :
        i < j => NameLess(publish_log[r][i].name, publish_log[r][j].name)

\* poller p has delivered the messages of its run in the order of their publication
DeliveredInPublishOrder(p) ==
    \A i, j \in 1..Len(inject_log[PollStream[p]]) :
        i < j => PublishedAt(p_run[p], inject_log[PollStream[p]][i])
                    < PublishedAt(p_run[p], inject_log[PollStream[p]][j])

\* C27 as stated: every published message has a name that sorts after the
\* names of all messages published earlier for its run, concurrent submissions
\* included, and a poller delivers the messages of its run in publish order.
C27_NamesFollowPublishOrder ==
    OnePoller => /\ \A r \in Runs : NamesAscend(r)
                 /\ DeliveredInPublishOrder("p1")

\* C27 amended: the name carries the time at which write_steering_message was
\* entered. While the calls for a run do not overlap in time, every published
\* message has a name that sorts after the names of all messages published
\* earlier for the run, and the poller delivers in publish order.
C27_NamesFollowSubmitOrder ==
    OnePoller =>
        \A r \in Runs : ~overlapped[r] =>
            /\ NamesAscend(r)
            /\ r = p_run["p1"] => DeliveredInPublishOrder("p1")

\* C27 witness: two workers published one message each for r1, one call after
\* the other, and the poller has delivered both
C27_Witness ==
    /\ OnePoller /\ ~overlapped["r1"]
    /\ Len(publish_log["r1"]) = 2
    /\ publish_log["r1"][1].name.pid # publish_log["r1"][2].name.pid
    /\ Len(inject_log["s1"]) = 2

\* C27: two calls for r1 overlapped, and the message published second has the
\* name that sorts first
C27_WitnessOverlap ==
    /\ overlapped["r1"]
    /\ Len(publish_log["r1"]) = 2
    /\ NameLess(publish_log["r1"][2].name, publish_log["r1"][1].name)

\* a step that is worker w's handling of a steer request for run r with this text
Steers(w, r, text) ==
    steer(w, r, text) /\ UNCHANGED <<chanVars, schedVars, inboundVars, feishuVars, extraVars>>

\* a step with which worker w answers the steer request it wrote a file for
Returns(w) ==
    steer_return(w) /\ UNCHANGED <<chanVars, schedVars, inboundVars, feishuVars, extraVars>>

\* the files worker w has published for run r after the first n files of the run
PublishedSince(w, r, n) ==
    {k \in (n + 1)..Len(publish_log[r]) : publish_log[r][k].name.pid = Pid[w]}

\* C28: a steer request for a run without a local stream and without a
\* running trace record is answered 404 "No active run", one for a run whose
\* local stream is closed 409 "already completed", and neither injects
\* anything nor creates a file; one for an open local stream appends the text
\* to that stream's injections and creates no file; one for a run that runs
\* elsewhere injects nothing itself and has, when it is answered, published
\* exactly one steering file of that run, with the request's text.
C28_SteerRequest ==
    /\ [][\A w \in Writers, r \in Runs : Steers(w, r, NextText) =>
            LET s == active_streams[w][r]
                t == NextText
            IN
            /\ (s = NoStream /\ trace_status[r] # "running") =>
                   /\ steer_response'[w] = NotFound
                   /\ inject_log' = inject_log /\ files' = files /\ steer_req' = steer_req
            /\ (s # NoStream /\ closed[s]) =>
                   /\ steer_response'[w] = AlreadyCompleted
                   /\ inject_log' = inject_log /\ files' = files /\ steer_req' = steer_req
            /\ (s # NoStream /\ ~closed[s]) =>
                   /\ steer_response'[w] = Injected
                   /\ inject_log' = [inject_log EXCEPT ![s] = Append(@, t)]
                   /\ files' = files /\ steer_req' = steer_req
            /\ (s = NoStream /\ trace_status[r] = "running") =>
                   /\ inject_log' = inject_log
                   /\ steer_req'[w].run = r /\ steer_req'[w].text = t]_vars
    /\ [][\A w \in Writers : Returns(w) =>
            /\ steer_response'[w] = Injected
            /\ Cardinality(PublishedSince(w, steer_req[w].run, steer_req[w].before)) = 1
            /\ \A k \in PublishedSince(w, steer_req[w].run, steer_req[w].before) :
                   publish_log[steer_req[w].run][k].text = steer_req[w].text
            /\ \A o \in Runs \ {steer_req[w].run} :
                   \A k \in 1..Len(publish_log[o]) :
                       publish_log[o][k].text # steer_req[w].text]_vars

\* C28 witness: worker w2 was answered "injected" for r1, which runs on w1,
\* after it was answered "No active run" for r2 — hence the file it wrote is
\* for r1 only — and w1 was answered "already completed" for its closed stream
C28_Witness ==
    /\ steer_response["w2"] = Injected /\ steer_req["w2"] = NoReq
    /\ Len(publish_log["r1"]) = 1 /\ publish_log["r1"][1].name.pid = Pid["w2"]
    /\ publish_log["r2"] = <<>>
    /\ steer_response["w1"] = AlreadyCompleted
    /\ closed["s1"]

\* the threads that are running _run_ws
LiveLoops == {t \in ThreadIds : ws_pc[t] \notin {"unborn", "done"}}

\* C29: a FeishuAdapter runs at most one background connection loop at any
\* time, whatever the sequence of connect() and disconnect() calls (a restart
\* being a disconnect() followed by a connect()).
C29_AtMostOneLoop == Cardinality(LiveLoops) <= 1

\* C29: the adapter was restarted while its loop was inside the client, and
\* the old loop runs next to the new one
C29_WitnessRestart ==
    /\ call_log = <<"connect", "disconnect", "connect">>
    /\ LiveLoops = {1, 3}

\* disconnect() has been called after thread t was started
DisconnectedSince(t) ==
    \E i \in 1..Len(call_log) : i > t /\ call_log[i] = "disconnect"

\* while the flag stays set, a loop whose client has ended enters the client again
Reconnects ==
    \A t \in ThreadIds :
        (ws_pc[t] = "check" /\ _connected) ~> (ws_pc[t] = "start" \/ ~_connected)

\* the end of the client, failures included, is handled inside the loop: the
\* thread goes on to its test, and neither the flag nor any other thread changes
FailureContained ==
    [][\A t \in ThreadIds : \A how \in {"returned", "raised"} :
          ws_client_ends(t, how) =>
              /\ ws_pc' = [ws_pc EXCEPT ![t] = "check"]
              /\ _connected' = _connected
              /\ call_log' = call_log]_vars

C30_WitnessStopped ==
    /\ call_log = <<"connect", "disconnect">>
    /\ ws_exit[1] = "raised" /\ ws_pc[1] = "done"

\* C30: the adapter is disconnected and its loop is still inside the client
C30_WitnessInsideClient ==
    /\ call_log = <<"connect", "disconnect">>
    /\ ws_pc[1] = "start"

\* the last n elements of a sequence
LastN(seq, n) == SubSeq(seq, Max(1, Len(seq) - n + 1), Len(seq))

\* a step that is the handling of an inbound event with this id
Receives(msg_id) ==
    /\ \E kind \in EventKinds : _on_message(msg_id, kind)
    /\ UNCHANGED <<streamVars, steerVars, chanVars, schedVars, inboundVars,
                   endpointVars, feishuVars>>

\* C31: the cache never holds more than MAX_DEDUP_SIZE ids; it holds the ids
\* inserted last, in insertion order, so that what has been evicted is the
\* oldest part of the insertions; and an event whose id is in the cache changes
\* neither the cache nor what was passed to the inbound handler.
C31_BoundedDedup ==
    /\ [](/\ Len(_seen_messages) <= MAX_DEDUP_SIZE
          /\ _seen_messages = LastN(insert_log, MAX_DEDUP_SIZE))
    /\ [][\A msg_id \in MessageIds :
            (Receives(msg_id) /\ msg_id \in Range(_seen_messages)) =>
                /\ handed' = handed
                /\ _seen_messages' = _seen_messages]_vars

\* C31 witness: the cache is full, the oldest id has been evicted, and an
\* event that repeated a cached id was dropped: four events, three insertions
C31_Witness ==
    /\ events = 4 /\ Len(insert_log) = 3
    /\ Len(_seen_messages) = MAX_DEDUP_SIZE
    /\ _seen_messages = Tail(insert_log)
    /\ Len(handed) = 3

(***************************************************************************)
(* Session store properties                                                *)
(***************************************************************************)
\* a save is between its select and its update
Saving(s) == save_pc[s] = "selected"

\* C32: the display history is append-only under every interleaving of saves
\* and checkpoints (each value of messages is a prefix of the next one), a
\* checkpoint changes agent_context only, and a save replaces agent_context
\* exactly when final messages were given.
C32_DisplayAppendOnly ==
    /\ [][IsPrefix(messages, messages')]_vars
    /\ [][(last_call' = "checkpoint" /\ agent_context' # agent_context)
              => messages' = messages]_vars
    /\ [][\A s \in Savers :
            (Saving(s) /\ ~Saving(s)' /\ agent_context' # agent_context)
                => /\ save_args[s].final_messages # NoneList
                   /\ agent_context' = save_args[s].final_messages]_vars

\* C32, the overlap: two saves have selected the same display history and the
\* first of them has appended its entry.
C32_WitnessOverlap ==
    \E s, t \in Savers :
        /\ s # t
        /\ Saving(t) /\ ~Saving(s)
        /\ current_display[t] = <<>>
        /\ Len(messages) = 1
        /\ save_args[t].display_append_messages # <<>>
        /\ messages # save_args[t].display_append_messages

(***************************************************************************)
(* Inbound pipeline properties                                             *)
(***************************************************************************)
\* position of a step in the order inbound, agent, save, outbound, send
StepRank(step) == CHOOSE i \in 1..Len(PipelineSteps) : PipelineSteps[i] = step

InOrder(log) == \A i, j \in 1..Len(log) : i < j => StepRank(log[i]) < StepRank(log[j])

HasRow(h, direction) ==
    \E i \in 1..Len(message_rows) :
        message_rows[i] = [handler |-> h, direction |-> direction]

Took(h, step) == \E i \in 1..Len(step_log[h]) : step_log[h][i] = step

\* C33: the steps of every routed message are taken in the order inbound
\* record committed, agent invoked, session context saved, outbound record
\* committed, reply sent; the agent is not invoked before the inbound record
\* is committed and no reply is sent before its outbound record exists.
C33_PipelineOrder ==
    \A h \in Handlers :
        /\ InOrder(step_log[h])
        /\ (h_pc[h] \in {"running", "returned", "answered", "recorded"} \/ Took(h, "agent"))
              => HasRow(h, "inbound")
        /\ Took(h, "save") => (Took(h, "agent") /\ session_rows[h_chat[h]].exists)
        /\ Took(h, "outbound") => (Took(h, "agent") /\ HasRow(h, "outbound"))
        /\ (\E i \in 1..Len(delivered) : delivered[i].handler = h)
              => (HasRow(h, "outbound") /\ HasRow(h, "inbound"))

\* C33 witness: a message went through all five steps while the handler of
\* another message was between its own steps.
C33_Witness ==
    \E h, g \in Handlers :
        /\ h # g
        /\ step_log[h] = PipelineSteps
        /\ h_pc[g] = "running"
        /\ Len(delivered) = 1 /\ delivered[1].handler = h

\* both handlers have finished and both saved a context for the same chat
BothSaved(h, g) ==
    /\ h # g
    /\ h_chat[h] = h_chat[g]
    /\ h_pc[h] = "done" /\ h_pc[g] = "done"
    /\ Took(h, "save") /\ Took(g, "save")

\* C40: the messages of one chat use one session id, a function of channel
\* type and external id only, and no update is lost when two messages of a
\* chat are handled concurrently: after both handlers have finished, the
\* stored conversation context holds the turns of both runs.
C40_NoLostUpdate ==
    \A h, g \in Handlers :
        /\ (h_chat[h] = h_chat[g]) <=> (ChatSession(h_chat[h]) = ChatSession(h_chat[g]))
        /\ BothSaved(h, g) =>
              /\ h \in Range(session_rows[h_chat[h]].agent_context)
              /\ g \in Range(session_rows[h_chat[h]].agent_context)

\* C40, the lost turn: two messages of one chat were handled concurrently,
\* both are answered, and the stored context holds the turn of one of them only.
C40_LostTurn ==
    \E h, g \in Handlers :
        /\ BothSaved(h, g)
        /\ step_log[h] = PipelineSteps /\ step_log[g] = PipelineSteps
        /\ session_rows[h_chat[h]].agent_context = <<g>>
        /\ Len(session_rows[h_chat[h]].messages) = 4

(***************************************************************************)
(* Scheduler properties: transactions of several workers                   *)
(***************************************************************************)
PollDispatches == {i \in 1..Len(dispatch_log) : dispatch_log[i].how = "poll"}

\* C34: for each due time of a task exactly one execution is dispatched, by
\* one polling loop or by the loops of several workers on the same database:
\* no two committed poll dispatches have the same task and the same due time.
C34_OneDispatchPerDueTime ==
    \A i, j \in PollDispatches :
        (/\ dispatch_log[i].task_id = dispatch_log[j].task_id
         /\ dispatch_log[i].due = dispatch_log[j].due) => i = j

\* C34, the double dispatch: two workers have committed a dispatch of the
\* same task for the same due time and both executions were started.
C34_DoubleDispatch ==
    /\ Len(dispatch_log) = 2
    /\ dispatch_log[1].how = "poll" /\ dispatch_log[2].how = "poll"
    /\ dispatch_log[1].due = dispatch_log[2].due
    /\ Cardinality(executions) = 2
    /\ tasks["t1"].run_count = 1

RowsCreated(id) == {i \in 1..Len(dispatch_log) : dispatch_log[i].task_id = id}

\* C36: run_count of every task equals the number of run-log rows ever
\* created for it, each poller dispatch and each run-now adding one row and
\* one to run_count, also when a run-now overlaps a poll of the same task.
C36_RunCountMatchesRows ==
    \A id \in TaskIds :
        Exists(id) => tasks[id].run_count = Cardinality(RowsCreated(id))

\* C36, the lost increment: a poll dispatch and a run-now of the same task
\* overlapped, two run-log rows exist and run_count is 1.
C36_LostIncrement ==
    /\ Len(dispatch_log) = 2
    /\ {dispatch_log[1].how, dispatch_log[2].how} = {"poll", "run_now"}
    /\ DOMAIN run_logs = {1, 2}
    /\ tasks["t1"].run_count = 1

(***************************************************************************)
(* Scheduler properties: the end of an execution                           *)
(***************************************************************************)
\* the status the row of a returned thread must have
FinalStatus(how) == IF how = "completed" THEN "completed" ELSE "failed"

\* C35: once its execution unit has returned, a run-log row is finalized:
\* completed when the agent returned a result, failed when the preset was
\* missing or the execution raised, never running; a failed forward of the
\* result leaves a completed row completed.
C35_RowFinalizedAtReturn ==
    /\ \A l \in DOMAIN returned :
          l \in DOMAIN run_logs =>
              /\ run_logs[l].status # "running"
              /\ returned[l] # "no_task" => run_logs[l].status = FinalStatus(returned[l])
    /\ \A i \in 1..Len(forward_log) :
          LET l == forward_log[i].run_log_id
          IN (l \in DOMAIN returned /\ l \in DOMAIN run_logs)
                 => run_logs[l].status = "completed"

\* C35 witness: two executions have returned, one whose forward failed and
\* whose row is completed, one whose agent raised and whose row is failed.
C35_Witness ==
    /\ Len(forward_log) = 1 /\ ~forward_log[1].ok
    /\ \E l, k \in DOMAIN returned :
          /\ l = forward_log[1].run_log_id
          /\ l \in DOMAIN run_logs /\ run_logs[l].status = "completed"
          /\ returned[k] = "raised"
          /\ k \in DOMAIN run_logs /\ run_logs[k].status = "failed"
          /\ run_logs[k].error = ExceptionText

(***************************************************************************)
(* Scheduler properties: next_run of an active task                        *)
(***************************************************************************)
\* C37: in every reachable state an active task has a non-null next_run
\* (after creation, dispatch, schedule update and resume), so that the
\* poller's query can select it.
C37_ActiveHasNextRun ==
    \A id \in TaskIds :
        (Exists(id) /\ tasks[id].status = "active") => tasks[id].next_run # NoTime

\* C37, the stranded task: a once task whose time is not in the future was
\* created and answered with 201; it is active, has no next_run, was never
\* dispatched and the query of a running poller does not select it.
C37_StrandedOnceTask ==
    \E id \in TaskIds :
        /\ Exists(id)
        /\ tasks[id].status = "active"
        /\ tasks[id].schedule_type = "once"
        /\ tasks[id].next_run = NoTime
        /\ tasks[id].run_count = 0
        /\ tasks[id].schedule_value.n <= now
        /\ sched_running
        /\ id \notin DueTasks

(***************************************************************************)
(* Scheduler lifecycle properties                                          *)
(***************************************************************************)
\* the loops that can still poll: created, not ended, no cancellation pending
RunningLoops ==
    {l \in LoopIds : loop_state[l] \in {"waiting", "polling"} /\ ~cancel_requested[l]}

\* C38: after any interleaving of start() and stop() calls at most one
\* polling loop is running, start() on a running scheduler creates no loop,
\* and a loop begins a poll only while the scheduler is running.
C38_AtMostOnePollingLoop ==
    /\ [](Cardinality(RunningLoops) <= 1)
    /\ [][(sched_running /\ lifecycle_calls' # lifecycle_calls /\ sched_running')
             => loop_state' = loop_state]_vars
    /\ [][poll_log' # poll_log => sched_running]_vars

\* C38, two loops: a start() ran while a stop() awaited the cancelled loop,
\* a later stop() found no task to cancel, and after the next start() two
\* loops poll side by side.
C38_TwoLoopsPoll ==
    /\ sched_running
    /\ loop_state[2] = "polling" /\ loop_state[3] = "polling"
    /\ loop_state[1] = "ended"
    /\ _task = 3

(***************************************************************************)
(* Channel Manager properties: adapters and enabled bindings               *)
(***************************************************************************)
\* C39: on the leader, after any sequence of binding create, update, toggle
\* and delete requests with their hooks, an adapter is registered for a
\* Feishu app_id if and only if an enabled binding with that app_id and an
\* app_secret exists.
C39_AdapterIffEnabledBinding ==
    is_leader[LeaderWorker] =>
        \A a \in AppIds :
            (FeishuKey(a) \in DOMAIN adapters[LeaderWorker]) <=> (a \in SeenAppIds(bindings))

\* C39, the adapter of a disabled binding: the only binding of an app_id was
\* toggled off, the request was answered with 200, and the leader still has
\* the adapter of that app_id registered and connected.
C39_AdapterOutlivesToggle ==
    /\ is_leader[LeaderWorker]
    /\ response.op = "toggle" /\ response.status = 200
    /\ \E b \in bindings :
          /\ b.channel_type = "feishu" /\ ~b.enabled
          /\ b.app_id # NoneV /\ b.app_secret # NoneV
          /\ \A x \in bindings : x.app_id = b.app_id => x = b
          /\ FeishuKey(b.app_id) \in DOMAIN adapters[LeaderWorker]
          /\ adapters[LeaderWorker][FeishuKey(b.app_id)].connected

====
